---- MODULE Spec2Model ----
(***************************************************************************)
(* A model of servo's retained-mode display lists                          *)
(* (components/gfx/display_list/mod.rs): the clipping-region algebra, the  *)
(* display-list mutators, painting of a stacking-context tree in CSS 2.1   *)
(* Appendix E order and the hit test.                                      *)
(*                                                                         *)
(* Lengths are app units (Au), 60 to the pixel.  Every coordinate of the   *)
(* model is a whole number of pixels: on these values the f32 conversions  *)
(* between Au and fractional pixels are exact.                             *)
(***************************************************************************)
EXTENDS Integers, Sequences, FiniteSets, TLC

VARIABLES
    clip,       \* SpecClip: the ClippingRegion under construction
    query,      \* SpecClip: the last query made on clip and its answer
    listA,      \* SpecList: a DisplayList (self of the mutators)
    listB,      \* SpecList: a second DisplayList (other of append_from)
    preA,       \* SpecList: listA as it was before the last mutator call
    preB,       \* SpecList: listB as it was before the last mutator call
    lastOp,     \* SpecList: the last operation applied
    nextId,     \* SpecList: the number of display items created so far
    root,       \* Spec: the shared, immutable stacking context tree
    call,       \* Spec: the last call made on the tree and its arguments
    draws,      \* Spec: the backend calls issued by the last paint call
    result,     \* Spec: the result vector of the last hit_test call
    tasks,      \* SpecTasks: the calls in progress on the shared tree
    built,      \* SpecTasks: the shared tree as it was built
    image       \* SpecImage: the loops that draw one ImageClass item

vars == <<clip, query, listA, listB, preA, preB, lastOp, nextId,
          root, call, draws, result, tasks, built, image>>

clipVars == <<clip, query>>
listVars == <<listA, listB, preA, preB, lastOp, nextId>>
treeVars == <<root, call, draws, result>>
taskVars == <<tasks, built>>
imageVars == <<image>>

----------------------------------------------------------------------------
(* Bounds of the model.                                                    *)

\* Largest pixel coordinate of a query point.
MaxCoord == 2
\* Largest number of complex regions pushed onto one clipping region.
MaxComplex == 2
\* Largest number of display items created in the display-list scenario.
MaxListItems == 3
\* Largest number of stacking contexts below the root of a tree.
MaxKids == 2

----------------------------------------------------------------------------
(* Geometry: util::geometry and the geom crate, as used by the source.     *)

\* App units per pixel (util::geometry::Au).
AU_PER_PX == 60

Px(n) == n * AU_PER_PX

Min(a, b) == IF a <= b THEN a ELSE b
Max(a, b) == IF a >= b THEN a ELSE b

RECURSIVE Reverse(_)
Reverse(s) == IF s = <<>> THEN <<>> ELSE Append(Reverse(Tail(s)), Head(s))

Point2D(x, y) == [x |-> x, y |-> y]
Size2D(w, h) == [width |-> w, height |-> h]
Rect(origin, size) == [origin |-> origin, size |-> size]
MkRect(x, y, w, h) == Rect(Point2D(x, y), Size2D(w, h))

max_x(r) == r.origin.x + r.size.width
max_y(r) == r.origin.y + r.size.height

\* util::geometry::ZERO_RECT and MAX_RECT.
MIN_AU_HALF == -1073741824
MAX_AU == 2147483647
ZERO_RECT == MkRect(0, 0, 0, 0)
MAX_RECT == MkRect(MIN_AU_HALF, MIN_AU_HALF, MAX_AU, MAX_AU)

\* util::geometry::rect_contains_point: half-open on the right and bottom.
rect_contains_point(rect, point) ==
    /\ point.x >= rect.origin.x
    /\ point.x < rect.origin.x + rect.size.width
    /\ point.y >= rect.origin.y
    /\ point.y < rect.origin.y + rect.size.height

\* geom::Rect::intersects.
Rect_intersects(a, b) ==
    /\ a.origin.x < max_x(b)
    /\ b.origin.x < max_x(a)
    /\ a.origin.y < max_y(b)
    /\ b.origin.y < max_y(a)

\* An Option is a sequence: None is <<>> and Some(v) is <<v>>.
None == <<>>
Some(v) == <<v>>
unwrap_or(opt, default) == IF opt = None THEN default ELSE opt[1]

\* geom::Rect::intersection.
Rect_intersection(a, b) ==
    IF ~Rect_intersects(a, b)
    THEN None
    ELSE LET x == Max(a.origin.x, b.origin.x)
             y == Max(a.origin.y, b.origin.y)
         IN  Some(MkRect(x, y, Min(max_x(a), max_x(b)) - x, Min(max_y(a), max_y(b)) - y))

\* geom::Rect::union: the smallest rectangle around both.
Rect_union(a, b) ==
    LET x == Min(a.origin.x, b.origin.x)
        y == Min(a.origin.y, b.origin.y)
    IN  MkRect(x, y, Max(max_x(a), max_x(b)) - x, Max(max_y(a), max_y(b)) - y)

\* geom::Rect::translate.
Rect_translate(r, delta) ==
    Rect(Point2D(r.origin.x + delta.x, r.origin.y + delta.y), r.size)

----------------------------------------------------------------------------
(* Clipping regions.                                                       *)

BorderRadii_all_same(v) ==
    [top_left |-> v, top_right |-> v, bottom_right |-> v, bottom_left |-> v]

ComplexClippingRegion(rect, radii) == [rect |-> rect, radii |-> radii]

ClippingRegion_empty == [main |-> ZERO_RECT, complex |-> <<>>]
ClippingRegion_max == [main |-> MAX_RECT, complex |-> <<>>]
ClippingRegion_from_rect(rect) == [main |-> rect, complex |-> <<>>]

intersect_with_rounded_rect(self, rect, radii) ==
    [self EXCEPT !.complex = Append(@, ComplexClippingRegion(rect, radii))]

\* ClippingRegion::intersect_rect.
intersect_rect(self, rect) ==
    LET intersection == Rect_intersection(self.main, rect)
    IN  [main |-> IF intersection = None THEN ZERO_RECT ELSE intersection[1],
         complex |-> self.complex]

\* A mutant of translate: the complex regions stay where they are.
translate_main_only(self, delta) ==
    [main |-> Rect_translate(self.main, delta), complex |-> self.complex]

\* ClippingRegion::translate.
translate(self, delta) ==
    [main |-> Rect_translate(self.main, delta),
     complex |-> [i \in 1..Len(self.complex) |->
                     ComplexClippingRegion(Rect_translate(self.complex[i].rect, delta),
                                           self.complex[i].radii)]]

\* A mutant of might_intersect_point: the complex rectangles are shrunk by
\* their radii before the test, as a test of the rounded interior would do.
might_intersect_point_inset(self, point) ==
    /\ rect_contains_point(self.main, point)
    /\ \A i \in 1..Len(self.complex) :
          LET c == self.complex[i]
              r == c.radii.top_left
          IN  rect_contains_point(
                  MkRect(c.rect.origin.x + r, c.rect.origin.y + r,
                         c.rect.size.width - 2 * r, c.rect.size.height - 2 * r),
                  point)

might_intersect_point(self, point) ==
    /\ rect_contains_point(self.main, point)
    /\ \A i \in 1..Len(self.complex) : rect_contains_point(self.complex[i].rect, point)

RECURSIVE bounding_rect_loop(_, _, _)
bounding_rect_loop(rect, complex, i) ==
    IF i > Len(complex)
    THEN rect
    ELSE bounding_rect_loop(Rect_union(rect, complex[i].rect), complex, i + 1)

\* A mutant of bounding_rect: the accumulator starts from the first complex
\* rectangle instead of main.
bounding_rect_no_main(self) ==
    IF self.complex = <<>>
    THEN self.main
    ELSE bounding_rect_loop(self.complex[1].rect, self.complex, 2)

bounding_rect(self) == bounding_rect_loop(self.main, self.complex, 1)

----------------------------------------------------------------------------
(* The clipping-region scenario: a region is made by one of the            *)
(* constructors, rounded rectangles are pushed onto it, and it is queried. *)

ClipRects ==
    { MkRect(Px(x), Px(0), Px(w), Px(h)) : x \in {0, 2}, w \in {2, 4}, h \in {2} }
        \cup { MkRect(Px(1), Px(1), Px(1), Px(3)) }

ClipRadii == { BorderRadii_all_same(0), BorderRadii_all_same(Px(1)) }

QueryPoints == { Point2D(Px(x), Px(y)) : x \in 0..(MaxCoord + 1), y \in 0..MaxCoord }

NoQuery == [op |-> "none"]

IntersectWithRoundedRect ==
    /\ Len(clip.complex) < MaxComplex
    /\ \E r \in ClipRects, radii \in ClipRadii :
          clip' = intersect_with_rounded_rect(clip, r, radii)
    /\ query' = NoQuery
    /\ UNCHANGED <<listVars, treeVars, taskVars, imageVars>>

MightIntersectPoint ==
    /\ \E p \in QueryPoints :
          query' = [op |-> "might_intersect_point", point |-> p,
                    answer |-> might_intersect_point(clip, p)]
    /\ UNCHANGED <<clip, listVars, treeVars, taskVars, imageVars>>

\* The vectors a region is translated by.
ClipDeltas == { Point2D(Px(dx), Px(dy)) : dx \in {-1, 0, 1}, dy \in {-1, 0, 1} }

\* intersect_rect takes the region by value: the region goes on as the
\* one returned.
IntersectRect ==
    /\ \E r \in ClipRects :
          /\ clip' = intersect_rect(clip, r)
          /\ query' = [op |-> "intersect_rect", rect |-> r, self |-> clip]
    /\ UNCHANGED <<listVars, treeVars, taskVars, imageVars>>

Translate ==
    /\ \E delta \in ClipDeltas :
          query' = [op |-> "translate", delta |-> delta,
                    answer |-> translate(clip, delta)]
    /\ UNCHANGED <<clip, listVars, treeVars, taskVars, imageVars>>

BoundingRect ==
    /\ query' = [op |-> "bounding_rect", answer |-> bounding_rect(clip)]
    /\ UNCHANGED <<clip, listVars, treeVars, taskVars, imageVars>>

----------------------------------------------------------------------------
(* Display lists.  A bucket is a LinkedList, modelled by a sequence.       *)

DisplayList_new ==
    [background_and_borders |-> <<>>,
     block_backgrounds_and_borders |-> <<>>,
     floats |-> <<>>,
     content |-> <<>>,
     outlines |-> <<>>,
     children |-> <<>>]

Buckets == {"background_and_borders", "block_backgrounds_and_borders",
            "floats", "content", "outlines"}
Fields == Buckets \cup {"children"}

\* LinkedList::append: moves every element of other to the end of self.
LinkedList_append(self, other) == [self |-> self \o other, other |-> <<>>]

\* util::linked_list::prepend_from: moves every element of other to the
\* front of this.
prepend_from(this, other) == [this |-> other \o this, other |-> <<>>]

\* A mutant of append_from: the child list is not spliced.
append_from_no_children(self, other) ==
    LET f(field) == LinkedList_append(self[field], other[field])
    IN  [self |-> [field \in Fields |->
                      IF field = "children" THEN self[field] ELSE f(field).self],
         other |-> [field \in Fields |->
                      IF field = "children" THEN other[field] ELSE f(field).other]]

append_from(self, other) ==
    LET f(field) == LinkedList_append(self[field], other[field])
    IN  [self |-> [field \in Fields |-> f(field).self],
         other |-> [field \in Fields |-> f(field).other]]

\* A mutant of form_float_pseudo_stacking_context: the content is prepended
\* before the outlines are.
form_float_pseudo_stacking_context_content_first(self) ==
    LET s1 == prepend_from(self.floats, self.content)
        s2 == prepend_from(s1.this, self.outlines)
        s3 == prepend_from(s2.this, self.block_backgrounds_and_borders)
        s4 == prepend_from(s3.this, self.background_and_borders)
    IN  [self EXCEPT
            !.floats = s4.this,
            !.content = s1.other,
            !.outlines = s2.other,
            !.block_backgrounds_and_borders = s3.other,
            !.background_and_borders = s4.other]

\* A mutant of form_float_pseudo_stacking_context: the root background and
\* border bucket is left out of the merge.
form_float_pseudo_stacking_context_no_root(self) ==
    LET s1 == prepend_from(self.floats, self.outlines)
        s2 == prepend_from(s1.this, self.content)
        s3 == prepend_from(s2.this, self.block_backgrounds_and_borders)
    IN  [self EXCEPT
            !.floats = s3.this,
            !.outlines = s1.other,
            !.content = s2.other,
            !.block_backgrounds_and_borders = s3.other]

form_float_pseudo_stacking_context(self) ==
    LET s1 == prepend_from(self.floats, self.outlines)
        s2 == prepend_from(s1.this, self.content)
        s3 == prepend_from(s2.this, self.block_backgrounds_and_borders)
        s4 == prepend_from(s3.this, self.background_and_borders)
    IN  [self EXCEPT
            !.floats = s4.this,
            !.outlines = s1.other,
            !.content = s2.other,
            !.block_backgrounds_and_borders = s3.other,
            !.background_and_borders = s4.other]

----------------------------------------------------------------------------
(* The display-list scenario: layout pushes items onto two lists and calls *)
(* the two mutators.  Items and children are stood for by their numbers.   *)

PushBack ==
    /\ nextId < MaxListItems
    /\ nextId' = nextId + 1
    /\ \E field \in Fields :
          \/ /\ listA' = [listA EXCEPT ![field] = Append(@, nextId + 1)]
             /\ UNCHANGED listB
          \/ /\ listB' = [listB EXCEPT ![field] = Append(@, nextId + 1)]
             /\ UNCHANGED listA
    /\ preA' = listA
    /\ preB' = listB
    /\ lastOp' = "push_back"
    /\ UNCHANGED <<clipVars, treeVars, taskVars, imageVars>>

AppendFrom ==
    /\ LET r == append_from(listA, listB)
       IN  /\ listA' = r.self
           /\ listB' = r.other
    /\ preA' = listA
    /\ preB' = listB
    /\ lastOp' = "append_from"
    /\ UNCHANGED <<nextId, clipVars, treeVars, taskVars, imageVars>>

FormFloatPseudoStackingContext ==
    /\ listA' = form_float_pseudo_stacking_context(listA)
    /\ preA' = listA
    /\ preB' = listB
    /\ lastOp' = "form_float_pseudo_stacking_context"
    /\ UNCHANGED <<listB, nextId, clipVars, treeVars, taskVars, imageVars>>

----------------------------------------------------------------------------
(* Display items and stacking contexts.                                    *)

\* geom::Matrix2D, with whole-pixel entries.
Matrix2D(m11, m12, m21, m22, m31, m32) ==
    [m11 |-> m11, m12 |-> m12, m21 |-> m21, m22 |-> m22, m31 |-> m31, m32 |-> m32]

Matrix2D_identity == Matrix2D(1, 0, 0, 1, 0, 0)

Matrix2D_mul(self, m) ==
    Matrix2D(m.m11 * self.m11 + m.m12 * self.m21,
             m.m11 * self.m12 + m.m12 * self.m22,
             m.m21 * self.m11 + m.m22 * self.m21,
             m.m21 * self.m12 + m.m22 * self.m22,
             m.m31 * self.m11 + m.m32 * self.m21 + self.m31,
             m.m31 * self.m12 + m.m32 * self.m22 + self.m32)

Matrix2D_translate(self, x, y) == Matrix2D_mul(self, Matrix2D(1, 0, 0, 1, x, y))

Matrix2D_transform_point(self, point) ==
    Point2D(point.x * self.m11 + point.y * self.m21 + self.m31,
            point.x * self.m12 + point.y * self.m22 + self.m32)

\* Au::to_frac32_px, Au::from_frac32_px and Au::to_nearest_px on whole
\* pixels, where the f32 arithmetic is exact.
to_frac32_px(au) == au \div AU_PER_PX
from_frac32_px(px) == px * AU_PER_PX
to_nearest_px(au) == au \div AU_PER_PX

\* ToAzureRect::to_azure_rect and geometry::f32_rect_to_au_rect.
to_azure_rect(r) ==
    MkRect(to_frac32_px(r.origin.x), to_frac32_px(r.origin.y),
           to_frac32_px(r.size.width), to_frac32_px(r.size.height))
f32_rect_to_au_rect(r) ==
    MkRect(from_frac32_px(r.origin.x), from_frac32_px(r.origin.y),
           from_frac32_px(r.size.width), from_frac32_px(r.size.height))

SideOffsets2D(top, right, bottom, left) ==
    [top |-> top, right |-> right, bottom |-> bottom, left |-> left]

DisplayItemMetadata(node, pointing) == [node |-> node, pointing |-> pointing]

BaseDisplayItem(bounds, metadata, clip_region) ==
    [bounds |-> bounds, metadata |-> metadata, clip |-> clip_region]

\* A DisplayItem: kind is the variant; border_widths is read for
\* BorderClass only, color_a (the colour's alpha, 0 or 1) for
\* SolidColorClass only and stretch_size for ImageClass only.
DisplayItem(kind, base, border_widths, color_a, stretch_size) ==
    [kind |-> kind, base |-> base, border_widths |-> border_widths,
     color_a |-> color_a, stretch_size |-> stretch_size]

StackingContext_new(display_list, bounds, overflow, z_index, transform, filters, blend_mode, layer) ==
    [display_list |-> display_list, layer |-> layer, bounds |-> bounds,
     overflow |-> overflow, z_index |-> z_index, transform |-> transform,
     filters |-> filters, blend_mode |-> blend_mode]

----------------------------------------------------------------------------
(* The paint context: the draw target (its call log and its transform)     *)
(* and the clips of one paint call.                                        *)

Emit(paint_context, event) ==
    [paint_context EXCEPT !.draw_target.calls = Append(@, event)]

DrawOps == {"draw_solid_color", "draw_text", "draw_image", "draw_border",
            "draw_linear_gradient", "draw_line", "draw_box_shadow"}

\* A drawing call of the backend; node names the item it was issued for.
DrawCall(op, bounds, node) == [op |-> op, bounds |-> bounds, node |-> node]

\* PaintContext::get_or_create_temporary_draw_target: a context with
\* filters or a blend mode other than normal paints into a surface of its
\* own.
needs_temporary_draw_target(filters, blend_mode) ==
    filters # <<>> \/ blend_mode # "normal"

get_or_create_temporary_draw_target(paint_context, filters, blend_mode) ==
    IF needs_temporary_draw_target(filters, blend_mode)
    THEN Emit(paint_context, [op |-> "create_temporary_draw_target"])
    ELSE paint_context

\* PaintContext::draw_temporary_draw_target_if_necessary.
draw_temporary_draw_target_if_necessary(paint_context, filters, blend_mode) ==
    IF needs_temporary_draw_target(filters, blend_mode)
    THEN Emit(paint_context, [op |-> "draw_temporary_draw_target",
                              filters |-> filters, blend_mode |-> blend_mode])
    ELSE paint_context

set_transform(paint_context, transform) ==
    [Emit(paint_context, [op |-> "set_transform", transform |-> transform])
        EXCEPT !.draw_target.transform = transform]

\* PaintContext::push_clip_if_applicable and pop_clip_if_applicable.
push_clip_if_applicable(paint_context) ==
    IF paint_context.clip_rect = None
    THEN paint_context
    ELSE Emit(paint_context, [op |-> "push_clip", clip |-> paint_context.clip_rect[1]])

pop_clip_if_applicable(paint_context) ==
    IF paint_context.clip_rect = None
    THEN paint_context
    ELSE Emit(paint_context, [op |-> "pop_clip"])

\* PaintContext::remove_transient_clip_if_applicable.
remove_transient_clip_if_applicable(paint_context) ==
    IF paint_context.transient_clip = None
    THEN paint_context
    ELSE [Emit(paint_context, [op |-> "pop_clip"]) EXCEPT !.transient_clip = None]

\* PaintContext::push_transient_clip.
push_transient_clip(paint_context, clip_region) ==
    [Emit(remove_transient_clip_if_applicable(paint_context),
          [op |-> "push_clip", clip |-> clip_region])
        EXCEPT !.transient_clip = Some(clip_region)]

\* The draw_image calls of an ImageClass item: the nested loops over
\* y_offset and x_offset (stretch_size is positive in every item of the
\* model).
RECURSIVE draw_image_row(_, _, _, _)
draw_image_row(image_item, paint_context, y_offset, x_offset) ==
    IF ~(x_offset < image_item.base.bounds.size.width)
    THEN paint_context
    ELSE LET bounds ==
                 Rect(Point2D(image_item.base.bounds.origin.x + x_offset,
                              image_item.base.bounds.origin.y + y_offset),
                      image_item.stretch_size)
         IN  draw_image_row(image_item,
                            Emit(paint_context,
                                 DrawCall("draw_image", bounds,
                                          image_item.base.metadata.node)),
                            y_offset,
                            x_offset + image_item.stretch_size.width)

RECURSIVE draw_image_rows(_, _, _)
draw_image_rows(image_item, paint_context, y_offset) ==
    IF ~(y_offset < image_item.base.bounds.size.height)
    THEN paint_context
    ELSE draw_image_rows(image_item,
                         draw_image_row(image_item, paint_context, y_offset, 0),
                         y_offset + image_item.stretch_size.height)

\* A mutant of the comparison of the clips: they never compare equal.
same_transient_clip_never(paint_context, this_clip) == FALSE

\* Some(ref transient_clip) if transient_clip == this_clip
same_transient_clip(paint_context, this_clip) ==
    paint_context.transient_clip = Some(this_clip)

\* DisplayItem::draw_into_context.
draw_into_context(self, paint_context) ==
    LET this_clip == self.base.clip
        clipped == IF same_transient_clip(paint_context, this_clip)
                   THEN paint_context
                   ELSE push_transient_clip(paint_context, this_clip)
        node == self.base.metadata.node
        one(op) == Emit(clipped, DrawCall(op, self.base.bounds, node))
    IN  CASE self.kind = "SolidColorClass" ->
                 IF self.color_a # 0 THEN one("draw_solid_color") ELSE clipped
          [] self.kind = "TextClass" -> one("draw_text")
          [] self.kind = "ImageClass" -> draw_image_rows(self, clipped, 0)
          [] self.kind = "BorderClass" -> one("draw_border")
          [] self.kind = "GradientClass" -> one("draw_linear_gradient")
          [] self.kind = "LineClass" -> one("draw_line")
          [] self.kind = "BoxShadowClass" -> one("draw_box_shadow")

\* for item in display_list.<bucket>.iter() { item.draw_into_context(..) }
\* drawn is the paint context as the first item leaves it; the rest of the
\* loop runs on it.
RECURSIVE draw_items(_, _)
draw_items(items, paint_context) ==
    IF items = <<>>
    THEN paint_context
    ELSE CHOOSE done \in { draw_items(Tail(items), drawn) :
                               drawn \in {draw_into_context(Head(items), paint_context)} } :
             TRUE

----------------------------------------------------------------------------
(* Painting.                                                               *)

\* A mutant of the optimizer: every child context is thrown out.
optimize_without_children(tile_bounds, display_list) ==
    [display_list EXCEPT !.children = <<>>]

\* DisplayListOptimizer::optimize: keeps, in order, the items whose bounds
\* intersect the tile and the children whose overflow rectangle, moved to
\* the parent's space, intersects it.
optimize(tile_bounds, display_list) ==
    LET visible_rect == f32_rect_to_au_rect(tile_bounds)
        keep_item(item) == Rect_intersects(visible_rect, item.base.bounds)
        keep_kid(kid) ==
            Rect_intersects(visible_rect, Rect_translate(kid.overflow, kid.bounds.origin))
    IN  [field \in Fields |->
            IF field = "children"
            THEN SelectSeq(display_list[field], keep_kid)
            ELSE SelectSeq(display_list[field], keep_item)]

\* The place of kid in a sequence sorted by z-index, behind every element
\* that does not compare greater: one step of a stable sort.
RECURSIVE insert_by_z_index(_, _)
insert_by_z_index(sorted, kid) ==
    IF sorted = <<>>
    THEN <<kid>>
    ELSE IF sorted[Len(sorted)].z_index <= kid.z_index
         THEN Append(sorted, kid)
         ELSE Append(insert_by_z_index(SubSeq(sorted, 1, Len(sorted) - 1), kid),
                     sorted[Len(sorted)])

RECURSIVE sort_loop(_, _)
sort_loop(sorted, rest) ==
    IF rest = <<>>
    THEN sorted
    ELSE sort_loop(insert_by_z_index(sorted, Head(rest)), Tail(rest))

\* A mutant of the sort of positioned_children: the children stay in list
\* order.
sort_by_z_index_missing(kids) == kids

\* positioned_children.sort_by(|this, other| this.z_index.cmp(&other.z_index)):
\* the slice sort is stable.
sort_by_z_index(kids) == sort_loop(<<>>, kids)

ZERO_AZURE_RECT == MkRect(0, 0, 0, 0)

\* StackingContext::compute_tile_rect_for_child_stacking_context.
compute_tile_rect_for_child_stacking_context(tile_bounds, child_stacking_context) ==
    LET child_stacking_context_overflow ==
            to_azure_rect(Rect_translate(child_stacking_context.overflow,
                                         child_stacking_context.bounds.origin))
        tile_subrect ==
            unwrap_or(Rect_intersection(tile_bounds, child_stacking_context_overflow),
                      ZERO_AZURE_RECT)
        origin == to_azure_rect(child_stacking_context.bounds).origin
    IN  Rect_translate(tile_subrect, Point2D(-origin.x, -origin.y))

RECURSIVE optimize_and_draw_into_context(_, _, _, _, _)
RECURSIVE draw_negative_kids(_, _, _, _)
RECURSIVE draw_nonnegative_kids(_, _, _, _)

\* A mutant of the body of the loops over positioned_children: the layer
\* of the child is not looked at.
draw_positioned_kid_any_layer(positioned_kid, paint_subcontext, tile_bounds, transform) ==
    optimize_and_draw_into_context(
        positioned_kid, paint_subcontext,
        compute_tile_rect_for_child_stacking_context(tile_bounds, positioned_kid),
        Matrix2D_translate(transform,
                           to_nearest_px(positioned_kid.bounds.origin.x),
                           to_nearest_px(positioned_kid.bounds.origin.y)),
        Some(positioned_kid.overflow))

\* The call on one positioned child that has no layer.
draw_positioned_kid(positioned_kid, paint_subcontext, tile_bounds, transform) ==
    IF positioned_kid.layer = None
    THEN LET new_transform ==
                 Matrix2D_translate(transform,
                                    to_nearest_px(positioned_kid.bounds.origin.x),
                                    to_nearest_px(positioned_kid.bounds.origin.y))
             new_tile_rect ==
                 compute_tile_rect_for_child_stacking_context(tile_bounds, positioned_kid)
         IN  optimize_and_draw_into_context(positioned_kid, paint_subcontext,
                                            new_tile_rect, new_transform,
                                            Some(positioned_kid.overflow))
    ELSE paint_subcontext

\* Step 3: the loop stops at the first child whose z-index is not negative.
draw_negative_kids(positioned_children, paint_subcontext, tile_bounds, transform) ==
    IF positioned_children = <<>>
    THEN paint_subcontext
    ELSE IF Head(positioned_children).z_index >= 0
         THEN paint_subcontext
         ELSE CHOOSE done \in
                  { draw_negative_kids(Tail(positioned_children), drawn, tile_bounds,
                                       transform) :
                        drawn \in {draw_positioned_kid(Head(positioned_children),
                                                       paint_subcontext, tile_bounds,
                                                       transform)} } :
                  TRUE

\* Steps 8 and 9: the loop passes over the children with a negative z-index.
draw_nonnegative_kids(positioned_children, paint_subcontext, tile_bounds, transform) ==
    IF positioned_children = <<>>
    THEN paint_subcontext
    ELSE IF Head(positioned_children).z_index < 0
         THEN draw_nonnegative_kids(Tail(positioned_children), paint_subcontext,
                                    tile_bounds, transform)
         ELSE CHOOSE done \in
                  { draw_nonnegative_kids(Tail(positioned_children), drawn, tile_bounds,
                                          transform) :
                        drawn \in {draw_positioned_kid(Head(positioned_children),
                                                       paint_subcontext, tile_bounds,
                                                       transform)} } :
                  TRUE

\* The painting steps of CSS 2.1 Appendix E, in the order of the body of
\* optimize_and_draw_into_context.
PaintingSteps ==
    <<"background_and_borders", "negative_kids", "block_backgrounds_and_borders",
      "floats", "content", "nonnegative_kids", "outlines">>

draw_step(step, display_list, positioned_children, paint_subcontext, tile_bounds, transform) ==
    CASE step = "negative_kids" ->
             draw_negative_kids(positioned_children, paint_subcontext, tile_bounds,
                                transform)
      [] step = "nonnegative_kids" ->
             draw_nonnegative_kids(positioned_children, paint_subcontext, tile_bounds,
                                   transform)
      [] OTHER -> draw_items(display_list[step], paint_subcontext)

\* The steps one after the other: each runs on the paint context its
\* predecessor has left.
RECURSIVE draw_steps(_, _, _, _, _, _)
draw_steps(steps, display_list, positioned_children, paint_subcontext, tile_bounds, transform) ==
    IF steps = <<>>
    THEN paint_subcontext
    ELSE CHOOSE done \in
             { draw_steps(Tail(steps), display_list, positioned_children, drawn,
                          tile_bounds, transform) :
                   drawn \in {draw_step(Head(steps), display_list, positioned_children,
                                        paint_subcontext, tile_bounds, transform)} } :
             TRUE

\* A mutant of the undoing: the transform is left as the context set it.
undo_clipping_only(paint_subcontext, old_transform) ==
    pop_clip_if_applicable(remove_transient_clip_if_applicable(paint_subcontext))

\* "Undo our clipping and transform."
undo_clipping_and_transform(paint_subcontext, old_transform) ==
    set_transform(
        pop_clip_if_applicable(remove_transient_clip_if_applicable(paint_subcontext)),
        old_transform)

\* StackingContext::optimize_and_draw_into_context.  The value is the
\* caller's paint context after the call: the subcontext shares its draw
\* target and has clips of its own.
optimize_and_draw_into_context(self, paint_context, tile_bounds, transform0, clip_rect) ==
    LET transform == Matrix2D_mul(transform0, self.transform)
        with_target ==
            get_or_create_temporary_draw_target(paint_context, self.filters,
                                                self.blend_mode)
        paint_subcontext ==
            [draw_target |-> with_target.draw_target,
             clip_rect |-> clip_rect,
             transient_clip |-> None]
        display_list == optimize(tile_bounds, self.display_list)
        positioned_children == sort_by_z_index(display_list.children)
        old_transform == paint_subcontext.draw_target.transform
        set_up == push_clip_if_applicable(set_transform(paint_subcontext, transform))
        drawn == draw_steps(PaintingSteps, display_list, positioned_children, set_up,
                            tile_bounds, transform)
        undone == undo_clipping_and_transform(drawn, old_transform)
    IN  draw_temporary_draw_target_if_necessary(
            [paint_context EXCEPT !.draw_target = undone.draw_target],
            self.filters, self.blend_mode)

----------------------------------------------------------------------------
(* Hit testing.                                                            *)

\* "`pointer-events` is `none`. Ignore this item."
pointer_events_none(item) == item.base.metadata.pointing = None

\* A mutant of the border test: a border is hit in its hole as well.
inside_border_never(item, point) == FALSE

\* "If the point is inside the border, it didn't hit the border!"
inside_border(item, point) ==
    /\ item.kind = "BorderClass"
    /\ LET border == item
           interior_rect ==
               Rect(Point2D(border.base.bounds.origin.x + border.border_widths.left,
                            border.base.bounds.origin.y + border.border_widths.top),
                    Size2D(border.base.bounds.size.width -
                               (border.border_widths.left + border.border_widths.right),
                           border.base.bounds.size.height -
                               (border.border_widths.top + border.border_widths.bottom)))
       IN  rect_contains_point(interior_rect, point)

\* A mutant of the topmost_only return: the loop goes on after a hit.
return_after_hit_never(topmost_only) == FALSE

\* "if topmost_only { return }" after the push.
return_after_hit(topmost_only) == topmost_only

\* A mutant of the item test: pointer-events: none is not looked at.
is_hit_ignoring_pointer_events(item, point) ==
    /\ might_intersect_point(item.base.clip, point)
    /\ rect_contains_point(item.base.bounds, point)
    /\ ~inside_border(item, point)

\* The tests an item passes before it is pushed: the continue statements
\* of the loop of hit_test_in_list.
is_hit(item, point) ==
    /\ might_intersect_point(item.base.clip, point)
    /\ rect_contains_point(item.base.bounds, point)
    /\ ~pointer_events_none(item)
    /\ ~inside_border(item, point)

\* hit_test_in_list: iterator is the bucket, already reversed.
RECURSIVE hit_test_in_list(_, _, _, _)
hit_test_in_list(point, res, topmost_only, iterator) ==
    IF iterator = <<>>
    THEN res
    ELSE IF ~is_hit(Head(iterator), point)
         THEN hit_test_in_list(point, res, topmost_only, Tail(iterator))
         ELSE LET pushed == Append(res, Head(iterator).base.metadata)
              IN  IF return_after_hit(topmost_only)
                  THEN pushed
                  ELSE hit_test_in_list(point, pushed, topmost_only, Tail(iterator))

\* A mutant of the conversion: the inverse of the transform is applied.
local_point_inverse(self, point) ==
    LET moved == Point2D(point.x - self.bounds.origin.x, point.y - self.bounds.origin.y)
        m == self.transform
        det == m.m11 * m.m22 - m.m12 * m.m21
        x == to_frac32_px(moved.x) - m.m31
        y == to_frac32_px(moved.y) - m.m32
    IN  Point2D(from_frac32_px((x * m.m22 - y * m.m21) \div det),
                from_frac32_px((y * m.m11 - x * m.m12) \div det))

\* The conversion of the point into the local space of a stacking context.
local_point(self, point) ==
    LET moved == Point2D(point.x - self.bounds.origin.x, point.y - self.bounds.origin.y)
        frac_point ==
            Matrix2D_transform_point(self.transform,
                                     Point2D(to_frac32_px(moved.x), to_frac32_px(moved.y)))
    IN  Point2D(from_frac32_px(frac_point.x), from_frac32_px(frac_point.y))

\* A mutant of the z-index test of the first loop over the children: a
\* child that owns a layer is passed over as well.
skipped_in_nonnegative_pass_or_layered(kid) == kid.z_index < 0 \/ kid.layer # None

\* A mutant of the z-index test of the first loop over the children: every
\* child is passed over.
skipped_in_nonnegative_pass_all(kid) == TRUE

\* The continue of the loop of steps 9 and 8.
skipped_in_nonnegative_pass(kid) == kid.z_index < 0

\* A mutant of the z-index test of the second loop over the children: no
\* child is passed over.
skipped_in_negative_pass_none(kid) == FALSE

\* The continue of the loop of step 3.
skipped_in_negative_pass(kid) == kid.z_index >= 0

\* The value of a loop that may return from hit_test: the result vector and
\* whether the function has returned.
Going(res) == [result |-> res, returned |-> FALSE]
Returned(res) == [result |-> res, returned |-> TRUE]

\* A mutant of the return after a child: the loop goes on to the next
\* child.
return_after_kid_never(topmost_only, res) == FALSE

\* "if topmost_only && !result.is_empty() { return }" after kid.hit_test.
return_after_kid(topmost_only, res) == topmost_only /\ res # <<>>

RECURSIVE hit_test(_, _, _, _)
RECURSIVE hit_test_kids(_, _, _, _, _)
RECURSIVE hit_test_lists(_, _, _, _)

\* The two loops over self.display_list.children.iter().rev(); pass names
\* the loop.
hit_test_kids(kids, point, res, topmost_only, pass) ==
    IF kids = <<>>
    THEN Going(res)
    ELSE LET kid == Head(kids)
             skipped == IF pass = "nonnegative"
                        THEN skipped_in_nonnegative_pass(kid)
                        ELSE skipped_in_negative_pass(kid)
         IN  IF skipped
             THEN hit_test_kids(Tail(kids), point, res, topmost_only, pass)
             ELSE LET after == hit_test(kid, point, res, topmost_only)
                  IN  IF return_after_kid(topmost_only, after)
                      THEN Returned(after)
                      ELSE hit_test_kids(Tail(kids), point, after, topmost_only, pass)

\* The loop over content, floats and block backgrounds and borders.
hit_test_lists(lists, point, res, topmost_only) ==
    IF lists = <<>>
    THEN Going(res)
    ELSE LET after == hit_test_in_list(point, res, topmost_only, Reverse(Head(lists)))
         IN  IF topmost_only /\ after # <<>>
             THEN Returned(after)
             ELSE hit_test_lists(Tail(lists), point, after, topmost_only)

\* StackingContext::hit_test.
hit_test(self, point0, res, topmost_only) ==
    LET point == local_point(self, point0)
        dl == self.display_list
        r10 == hit_test_in_list(point, res, topmost_only, Reverse(dl.outlines))
    IN  IF topmost_only /\ r10 # <<>>
        THEN r10
        ELSE
    LET k9 == hit_test_kids(Reverse(dl.children), point, r10, topmost_only,
                            "nonnegative")
    IN  IF k9.returned
        THEN k9.result
        ELSE
    LET l7 == hit_test_lists(<<dl.content, dl.floats, dl.block_backgrounds_and_borders>>,
                             point, k9.result, topmost_only)
    IN  IF l7.returned
        THEN l7.result
        ELSE
    LET k3 == hit_test_kids(Reverse(dl.children), point, l7.result, topmost_only,
                            "negative")
    IN  IF k3.returned
        THEN k3.result
        ELSE hit_test_in_list(point, k3.result, topmost_only,
                              Reverse(dl.background_and_borders))

\* The calls of the recursion in the order they are made, this call and
\* then the calls the two loops over the children make: the context
\* entered and the result vector as the assertion at the head of hit_test
\* reads it.
Entered(self, res) == [self |-> self, result |-> res]

RECURSIVE hit_test_entries(_, _, _, _)
RECURSIVE hit_test_kids_entries(_, _, _, _, _)

hit_test_kids_entries(kids, point, res, topmost_only, pass) ==
    IF kids = <<>>
    THEN <<>>
    ELSE LET kid == Head(kids)
             skipped == IF pass = "nonnegative"
                        THEN skipped_in_nonnegative_pass(kid)
                        ELSE skipped_in_negative_pass(kid)
         IN  IF skipped
             THEN hit_test_kids_entries(Tail(kids), point, res, topmost_only, pass)
             ELSE LET after == hit_test(kid, point, res, topmost_only)
                  IN  hit_test_entries(kid, point, res, topmost_only)
                          \o (IF return_after_kid(topmost_only, after)
                              THEN <<>>
                              ELSE hit_test_kids_entries(Tail(kids), point, after,
                                                         topmost_only, pass))

hit_test_entries(self, point0, res, topmost_only) ==
    LET point == local_point(self, point0)
        dl == self.display_list
        r10 == hit_test_in_list(point, res, topmost_only, Reverse(dl.outlines))
    IN  IF topmost_only /\ r10 # <<>>
        THEN <<Entered(self, res)>>
        ELSE
    LET k9 == hit_test_kids(Reverse(dl.children), point, r10, topmost_only,
                            "nonnegative")
        e9 == hit_test_kids_entries(Reverse(dl.children), point, r10, topmost_only,
                                    "nonnegative")
    IN  IF k9.returned
        THEN <<Entered(self, res)>> \o e9
        ELSE
    LET l7 == hit_test_lists(<<dl.content, dl.floats, dl.block_backgrounds_and_borders>>,
                             point, k9.result, topmost_only)
    IN  IF l7.returned
        THEN <<Entered(self, res)>> \o e9
        ELSE <<Entered(self, res)>> \o e9
                 \o hit_test_kids_entries(Reverse(dl.children), point, l7.result,
                                          topmost_only, "negative")

\* A mutant of the assertion: it holds of every result.
debug_assert_never_fails(topmost_only, res) == TRUE

\* debug_assert!(!topmost_only || result.is_empty())
debug_assert_holds(topmost_only, res) == ~topmost_only \/ res = <<>>

\* A call of hit_test from outside on a result vector of the caller, in a
\* build with or without debug assertions.  The assertion can fail at this
\* entry only: with topmost_only a child is entered on an empty result.
hit_test_call(self, point, res, topmost_only, debug_assertions) ==
    IF debug_assertions /\ ~debug_assert_holds(topmost_only, res)
    THEN [panicked |-> TRUE, result |-> res]
    ELSE [panicked |-> FALSE, result |-> hit_test(self, point, res, topmost_only)]

----------------------------------------------------------------------------
(* Layer lookup.                                                           *)

\* A mutant of the layer test: the id of the layer is not compared.
layer_matches_any_id(this, layer_id) == this.layer # None

\* Some(ref layer) if layer.id == layer_id
layer_matches(this, layer_id) ==
    this.layer # None /\ this.layer[1].id = layer_id

RECURSIVE find_stacking_context_with_layer_id(_, _)
RECURSIVE find_in_children(_, _)

\* The loop over this.display_list.children.iter(): the first child whose
\* search finds a context ends the search.
find_in_children(kids, layer_id) ==
    IF kids = <<>>
    THEN None
    ELSE LET found == find_stacking_context_with_layer_id(Head(kids), layer_id)
         IN  IF found # None
             THEN found
             ELSE find_in_children(Tail(kids), layer_id)

find_stacking_context_with_layer_id(this, layer_id) ==
    IF layer_matches(this, layer_id)
    THEN Some(this)
    ELSE find_in_children(this.display_list.children, layer_id)

----------------------------------------------------------------------------
(* The stacking context trees of the model.  The node of an item is        *)
(* <<path, bucket, index>>: the child indices from the root to its         *)
(* context, its bucket and its place in the bucket.                        *)

\* Largest number of items in one bucket of an ordering tree.
MaxPerBucket == 2
\* Largest number of catalogue items in one item tree.
MaxItems == 2

\* The largest width and height, in pixels, of the image items drawn step
\* by step, the largest stretch_size, and the number of draw_image calls
\* counted.
MaxImageSize == 2
MaxStretch == 2
MaxDrawCalls == 5

\* No image loop in progress.
IdleImage == [pc |-> "idle"]

NoWidths == SideOffsets2D(0, 0, 0, 0)
NoSize == Size2D(0, 0)
Everywhere == MkRect(0, 0, Px(4), Px(4))
Pointer == Some("DefaultCursor")

Template(kind, bounds, pointing, clip_region, widths, color_a, stretch_size) ==
    DisplayItem(kind, BaseDisplayItem(bounds, DisplayItemMetadata(<<>>, pointing),
                                      clip_region),
                widths, color_a, stretch_size)

PlainTemplate ==
    Template("SolidColorClass", Everywhere, Pointer, ClippingRegion_max, NoWidths, 1, NoSize)

RoundedClip ==
    intersect_with_rounded_rect(ClippingRegion_from_rect(Everywhere),
                                MkRect(Px(1), Px(1), Px(3), Px(3)),
                                BorderRadii_all_same(Px(1)))

BorderWidths == SideOffsets2D(Px(1), Px(1), Px(1), Px(1))

ItemCatalogue ==
    { PlainTemplate,
      \* pointer-events: none
      Template("SolidColorClass", Everywhere, None, ClippingRegion_max, NoWidths, 1, NoSize),
      \* fully transparent
      Template("SolidColorClass", Everywhere, Pointer, ClippingRegion_max, NoWidths, 0, NoSize),
      \* a small item in a corner of the tile
      Template("TextClass", MkRect(Px(2), Px(2), Px(1), Px(1)), Pointer,
               ClippingRegion_max, NoWidths, 1, NoSize),
      \* clipped by a rounded rectangle
      Template("GradientClass", Everywhere, Pointer, RoundedClip, NoWidths, 1, NoSize),
      \* borders: interior [1px, 3px) in both directions
      Template("BorderClass", Everywhere, Pointer, ClippingRegion_max, BorderWidths, 1, NoSize),
      Template("BorderClass", Everywhere, None, ClippingRegion_max, BorderWidths, 1, NoSize),
      \* interior [1px, 4px) across and [0px, 3px) down
      Template("BorderClass", Everywhere, Pointer, RoundedClip,
               SideOffsets2D(0, 0, Px(1), Px(1)), 1, NoSize),
      \* an image tiled two by two
      Template("ImageClass", Everywhere, Pointer, ClippingRegion_max, NoWidths, 1,
               Size2D(Px(2), Px(2))) }

WithNode(template, node) == [template EXCEPT !.base.metadata.node = node]

RootBounds == MkRect(0, 0, Px(6), Px(6))
KidBounds == MkRect(Px(1), Px(1), Px(4), Px(4))
KidOverflow == MkRect(0, 0, Px(4), Px(4))

ZIndexes == {-2, -1, 0, 1}
Layers == {None, Some([id |-> 1])}

\* The forests of n stacking contexts: z-index, layer and children of each.
RECURSIVE ForestsOf(_)
ForestsOf(n) ==
    IF n = 0
    THEN {<<>>}
    ELSE UNION { { <<[z_index |-> z, layer |-> l, kids |-> sub]>> \o rest :
                      z \in ZIndexes, l \in Layers,
                      sub \in ForestsOf(i), rest \in ForestsOf(n - 1 - i) } :
                 i \in 0..(n - 1) }

\* The context of an ordering tree: per plain items in every bucket.
RECURSIVE OrderingContext(_, _, _, _, _)
OrderingContext(path, per, bounds, skeleton, kids) ==
    LET bucket(b) == [i \in 1..per |-> WithNode(PlainTemplate, <<path, b, i>>)]
        child(i) == OrderingContext(Append(path, i), per, KidBounds, kids[i], kids[i].kids)
    IN  StackingContext_new(
            [field \in Fields |->
                IF field = "children"
                THEN [i \in 1..Len(kids) |-> child(i)]
                ELSE bucket(field)],
            bounds, IF path = <<>> THEN RootBounds ELSE KidOverflow,
            skeleton.z_index, Matrix2D_identity, <<>>, "normal", skeleton.layer)

RootSkeleton == [z_index |-> 0, layer |-> None]

OrderingTrees ==
    { OrderingContext(<<>>, per, RootBounds, RootSkeleton, kids) :
          per \in 1..MaxPerBucket,
          kids \in UNION { ForestsOf(n) : n \in 0..MaxKids } }

\* The sequences of at most n catalogue items.
RECURSIVE TemplateSeqs(_)
TemplateSeqs(n) ==
    IF n = 0
    THEN {<<>>}
    ELSE TemplateSeqs(n - 1)
            \cup { Append(s, t) : s \in { q \in TemplateSeqs(n - 1) : Len(q) = n - 1 },
                                  t \in ItemCatalogue }

Numbered(templates, path, b) ==
    [i \in 1..Len(templates) |-> WithNode(templates[i], <<path, b, i>>)]

\* The child of an item tree: below the content of the root, or above it
\* and translated by one pixel.
KidVariants ==
    { [z_index |-> -1, transform |-> Matrix2D_identity],
      [z_index |-> 1, transform |-> Matrix2D(1, 0, 0, 1, 1, 1)] }

\* An item tree: a root with one plain background item and catalogue items
\* as content, and one child with catalogue items as content.
ItemTree(rootItems, kidItems, variant) ==
    LET kid == StackingContext_new(
                   [DisplayList_new EXCEPT !.content = Numbered(kidItems, <<1>>, "content")],
                   KidBounds, KidOverflow, variant.z_index, variant.transform,
                   <<>>, "normal", None)
    IN  StackingContext_new(
            [DisplayList_new EXCEPT
                !.background_and_borders =
                    <<WithNode(PlainTemplate, <<<<>>, "background_and_borders", 1>>)>>,
                !.content = Numbered(rootItems, <<>>, "content"),
                !.children = <<kid>>],
            RootBounds, RootBounds, 0, Matrix2D_identity, <<>>, "normal", None)

ItemTrees ==
    { ItemTree(rk[1], rk[2], v) :
          rk \in { p \in TemplateSeqs(MaxItems) \X TemplateSeqs(MaxItems) :
                       Len(p[1]) + Len(p[2]) <= MaxItems },
          v \in KidVariants }

\* Filters and blend modes of a stacking context: none, an opacity filter,
\* a blend mode other than normal.
Isolations ==
    { [filters |-> <<>>, blend_mode |-> "normal"],
      [filters |-> <<"opacity">>, blend_mode |-> "normal"],
      [filters |-> <<>>, blend_mode |-> "multiply"] }

\* The item trees of one plain content item in the root and in the child,
\* the root and the child with filters or a blend mode of their own.
IsolatedTrees ==
    { [tree EXCEPT
          !.filters = own.filters,
          !.blend_mode = own.blend_mode,
          !.display_list.children[1].filters = kid.filters,
          !.display_list.children[1].blend_mode = kid.blend_mode] :
          tree \in { ItemTree(<<PlainTemplate>>, <<PlainTemplate>>, v) : v \in KidVariants },
          own \in Isolations, kid \in Isolations }

\* A tree with the outlines of every context taken out.
RECURSIVE WithoutOutlines(_)
WithoutOutlines(self) ==
    [self EXCEPT
        !.display_list.outlines = <<>>,
        !.display_list.children =
            [k \in 1..Len(self.display_list.children) |->
                WithoutOutlines(self.display_list.children[k])]]

\* The ordering trees of one item a bucket, without outlines: a hit test
\* reaches the children before an item of the parent is tested.
HollowTrees ==
    { WithoutOutlines(OrderingContext(<<>>, 1, RootBounds, RootSkeleton, kids)) :
          kids \in UNION { ForestsOf(n) : n \in 1..MaxKids } }

\* The tiles a tree is painted on, in pixels: all of it, and its corner.
Tiles == { MkRect(0, 0, 6, 6), MkRect(0, 0, 1, 1) }

\* The points a tree is hit-tested at.
HitPoints == { Point2D(Px(c), Px(c)) : c \in 0..MaxCoord }

IdleRoot ==
    StackingContext_new(DisplayList_new, ZERO_RECT, ZERO_RECT, 0, Matrix2D_identity,
                        <<>>, "normal", None)

NoCall == [op |-> "none"]

\* The calls that may be in progress at once, and a task that has made none.
Tasks == {"t1", "t2"}
IdleTask == [kind |-> "idle"]

FreshPaintContext ==
    [draw_target |-> [calls |-> <<>>, transform |-> Matrix2D_identity],
     clip_rect |-> None,
     transient_clip |-> None]

\* A painting task paints the tree on one tile, into a paint context of
\* its own.
Paint ==
    /\ call = NoCall
    /\ \E tile_bounds \in Tiles :
          /\ call' = [op |-> "paint", tile_bounds |-> tile_bounds]
          /\ draws' = optimize_and_draw_into_context(
                          root, FreshPaintContext, tile_bounds, Matrix2D_identity,
                          None).draw_target.calls
    /\ UNCHANGED <<root, result, clipVars, listVars, taskVars, imageVars>>

\* A hit test of the tree, on an empty result vector.
HitTest ==
    /\ call = NoCall
    /\ \E point \in HitPoints, topmost_only \in BOOLEAN :
          /\ call' = [op |-> "hit_test", point |-> point, topmost_only |-> topmost_only,
                      asserted |-> hit_test_entries(root, point, <<>>, topmost_only)]
          /\ result' = hit_test(root, point, <<>>, topmost_only)
    /\ UNCHANGED <<root, draws, clipVars, listVars, taskVars, imageVars>>

\* A result vector that is not empty on entry: one element of an earlier
\* call.
StaleResults == { <<DisplayItemMetadata(<<<<>>, "stale", 1>>, Pointer)>> }

\* A hit test of the tree on a result vector that is not empty.
HitTestOnResult ==
    /\ call = NoCall
    /\ \E point \in HitPoints, topmost_only \in BOOLEAN,
          debug_assertions \in BOOLEAN, entry \in StaleResults :
          LET out == hit_test_call(root, point, entry, topmost_only, debug_assertions)
          IN  /\ call' = [op |-> "hit_test_on_result", point |-> point,
                          topmost_only |-> topmost_only,
                          debug_assertions |-> debug_assertions,
                          entry |-> entry, panicked |-> out.panicked]
              /\ result' = out.result
    /\ UNCHANGED <<root, draws, clipVars, listVars, taskVars, imageVars>>

\* The layer ids looked up: the id of the layers of the model, and an id no
\* layer has.
LayerIds == { 1, 2 }

\* A lookup of a layer in the tree.
FindStackingContextWithLayerId ==
    /\ call = NoCall
    /\ \E layer_id \in LayerIds :
          call' = [op |-> "find_stacking_context_with_layer_id",
                   layer_id |-> layer_id,
                   found |-> find_stacking_context_with_layer_id(root, layer_id)]
    /\ UNCHANGED <<root, draws, result, clipVars, listVars, taskVars, imageVars>>

\* The transient clip of the paint context as a bucket is entered: none,
\* or the clip of the item drawn last.
EnteringClips == { None, Some(ClippingRegion_max), Some(RoundedClip) }

\* The content bucket of the tree is drawn, as in step 7 of
\* optimize_and_draw_into_context, into a paint context with or without an
\* active transient clip.
DrawContent ==
    /\ call = NoCall
    /\ \E transient_clip \in EnteringClips :
          LET entering == [FreshPaintContext EXCEPT !.transient_clip = transient_clip]
          IN  call' = [op |-> "draw_content", entering |-> entering,
                       left |-> draw_items(root.display_list.content, entering)]
    /\ UNCHANGED <<root, draws, result, clipVars, listVars, taskVars, imageVars>>

\* The paint contexts a stacking context is painted into: a draw target
\* with the identity or a translation as its transform, and clips of the
\* caller.
EnteringContexts ==
    { [FreshPaintContext EXCEPT !.draw_target.transform = t, !.transient_clip = c] :
          t \in { Matrix2D_identity, Matrix2D(1, 0, 0, 1, 1, 1) },
          c \in { None, Some(ClippingRegion_max) } }

\* optimize_and_draw_into_context is called on the root as the painting
\* task calls it, or on a child of the root as the loops over
\* positioned_children call it, into a paint context of the caller.
PaintInto ==
    /\ call = NoCall
    /\ \E k \in 0..Len(root.display_list.children), entering \in EnteringContexts :
          LET self == IF k = 0 THEN root ELSE root.display_list.children[k]
              clip_rect == IF k = 0 THEN None ELSE Some(self.overflow)
              transform ==
                  IF k = 0
                  THEN entering.draw_target.transform
                  ELSE Matrix2D_translate(entering.draw_target.transform,
                                          to_nearest_px(self.bounds.origin.x),
                                          to_nearest_px(self.bounds.origin.y))
          IN  call' = [op |-> "paint_into", kid |-> k, entering |-> entering,
                       left |-> optimize_and_draw_into_context(
                                    self, entering, MkRect(0, 0, 6, 6), transform,
                                    clip_rect)]
    /\ UNCHANGED <<root, draws, result, clipVars, listVars, taskVars, imageVars>>

\* The tiles a display list is optimized for, in pixels: the tiles painted
\* and one off the small items of the catalogue.
OptimizerTiles == Tiles \cup { MkRect(3, 3, 2, 2) }

\* The display list of the tree is optimized for a tile, as in
\* optimize_and_draw_into_context.
Optimize ==
    /\ call = NoCall
    /\ \E tile_bounds \in OptimizerTiles :
          call' = [op |-> "optimize", tile_bounds |-> tile_bounds,
                   display_list |-> optimize(tile_bounds, root.display_list)]
    /\ UNCHANGED <<root, draws, result, clipVars, listVars, taskVars, imageVars>>

----------------------------------------------------------------------------
(* Calls in progress at once on one shared tree.  A call takes the tree by *)
(* shared reference; what it computes on the way is local to it.           *)

\* A mutant of the sort of positioned_children: the shared child list is
\* sorted in place.
tree_after_sort_in_place(self) ==
    [self EXCEPT !.display_list.children = sort_by_z_index(@)]

\* The shared tree after the sort: the children are cloned into a vector of
\* the call's own and sorted there.
tree_after_sort(self) == self

\* optimize_and_draw_into_context up to "Set up our clip rect and
\* transform": the locals of the call.
paint_begin(self, paint_context, tile_bounds, transform0, clip_rect) ==
    LET transform == Matrix2D_mul(transform0, self.transform)
        with_target ==
            get_or_create_temporary_draw_target(paint_context, self.filters,
                                                self.blend_mode)
        paint_subcontext ==
            [draw_target |-> with_target.draw_target,
             clip_rect |-> clip_rect,
             transient_clip |-> None]
        display_list == optimize(tile_bounds, self.display_list)
    IN  [display_list |-> display_list,
         positioned_children |-> sort_by_z_index(display_list.children),
         transform |-> transform,
         old_transform |-> paint_subcontext.draw_target.transform,
         paint_subcontext |->
             push_clip_if_applicable(set_transform(paint_subcontext, transform))]

\* optimize_and_draw_into_context from "Undo our clipping and transform":
\* the calls on the draw target.
paint_end(self, paint_context, locals) ==
    LET undone == undo_clipping_and_transform(locals.paint_subcontext,
                                              locals.old_transform)
    IN  draw_temporary_draw_target_if_necessary(
            [paint_context EXCEPT !.draw_target = undone.draw_target],
            self.filters, self.blend_mode).draw_target.calls

\* The sections of hit_test, in the order of its body.
HitTestSections == <<"outlines", "nonnegative", "lists", "negative",
                     "background_and_borders">>

\* One section of hit_test on the result so far.
hit_test_section(self, section, point, res, topmost_only) ==
    LET dl == self.display_list
    IN  CASE section = "outlines" ->
                 hit_test_in_list(point, res, topmost_only, Reverse(dl.outlines))
          [] section = "background_and_borders" ->
                 hit_test_in_list(point, res, topmost_only,
                                  Reverse(dl.background_and_borders))
          [] section = "lists" ->
                 hit_test_lists(<<dl.content, dl.floats,
                                  dl.block_backgrounds_and_borders>>,
                                point, res, topmost_only).result
          [] OTHER ->
                 hit_test_kids(Reverse(dl.children), point, res, topmost_only,
                               section).result

\* The tiles of the painting tasks, in pixels: the two halves of the tree.
TaskTiles == { MkRect(0, 0, 3, 6), MkRect(3, 0, 3, 6) }

\* The shared trees: a root with two children without a layer.
TaskTrees ==
    { OrderingContext(<<>>, 1, RootBounds, RootSkeleton,
                      <<[z_index |-> z1, layer |-> None, kids |-> <<>>],
                        [z_index |-> z2, layer |-> None, kids |-> <<>>]>>) :
          z1 \in ZIndexes, z2 \in ZIndexes }

\* A task enters optimize_and_draw_into_context with a paint context of its
\* own, on a tile no painting task in progress overlaps.
TaskBeginPaint ==
    \E t \in Tasks, tile_bounds \in TaskTiles :
        /\ tasks[t].kind = "idle"
        /\ \A other \in Tasks \ {t} :
              tasks[other].kind = "paint"
                  => ~Rect_intersects(tasks[other].tile_bounds, tile_bounds)
        /\ tasks' = [tasks EXCEPT ![t] =
              [kind |-> "paint", pc |-> 1, tile_bounds |-> tile_bounds,
               locals |-> paint_begin(root, FreshPaintContext, tile_bounds,
                                      Matrix2D_identity, None),
               calls |-> <<>>, returned |-> FALSE]]
        /\ root' = tree_after_sort(root)
        /\ UNCHANGED <<built, call, draws, result, clipVars, listVars,
                     imageVars>>

\* A painting task runs its next painting step.
TaskPaintStep ==
    \E t \in Tasks :
        /\ tasks[t].kind = "paint"
        /\ tasks[t].pc \in 1..Len(PaintingSteps)
        /\ LET locals == tasks[t].locals
           IN  tasks' = [tasks EXCEPT
                   ![t].pc = @ + 1,
                   ![t].locals.paint_subcontext =
                       draw_step(PaintingSteps[tasks[t].pc], locals.display_list,
                                 locals.positioned_children, locals.paint_subcontext,
                                 tasks[t].tile_bounds, locals.transform)]
        /\ UNCHANGED <<root, built, call, draws, result, clipVars, listVars,
                     imageVars>>

\* A painting task undoes its clip and transform and returns.
TaskEndPaint ==
    \E t \in Tasks :
        /\ tasks[t].kind = "paint"
        /\ tasks[t].pc = Len(PaintingSteps) + 1
        /\ ~tasks[t].returned
        /\ tasks' = [tasks EXCEPT
               ![t].returned = TRUE,
               ![t].calls = paint_end(root, FreshPaintContext, tasks[t].locals)]
        /\ UNCHANGED <<root, built, call, draws, result, clipVars, listVars,
                     imageVars>>

\* A task enters hit_test with an empty result vector of its own.
TaskBeginHitTest ==
    \E t \in Tasks, point \in HitPoints, topmost_only \in BOOLEAN :
        /\ tasks[t].kind = "idle"
        /\ tasks' = [tasks EXCEPT ![t] =
              [kind |-> "hit_test", pc |-> 1, point |-> point,
               topmost_only |-> topmost_only,
               local |-> local_point(root, point), result |-> <<>>,
               returned |-> FALSE]]
        /\ UNCHANGED <<root, built, call, draws, result, clipVars, listVars,
                     imageVars>>

\* A hit-testing task runs its next section, and returns after the last
\* or, with topmost_only, after the first that leaves a result.
TaskHitTestStep ==
    \E t \in Tasks :
        /\ tasks[t].kind = "hit_test"
        /\ ~tasks[t].returned
        /\ LET after == hit_test_section(root, HitTestSections[tasks[t].pc],
                                         tasks[t].local, tasks[t].result,
                                         tasks[t].topmost_only)
           IN  tasks' = [tasks EXCEPT
                   ![t].result = after,
                   ![t].pc = @ + 1,
                   ![t].returned = (tasks[t].topmost_only /\ after # <<>>)
                                       \/ tasks[t].pc = Len(HitTestSections)]
        /\ UNCHANGED <<root, built, call, draws, result, clipVars, listVars,
                     imageVars>>

----------------------------------------------------------------------------

(* Specifications.                                                         *)

Init ==
    /\ root \in OrderingTrees \cup ItemTrees \cup IsolatedTrees \cup HollowTrees
    /\ call = NoCall /\ draws = <<>> /\ result = <<>>
    /\ clip = ClippingRegion_empty /\ query = NoQuery
    /\ listA = DisplayList_new /\ listB = DisplayList_new
    /\ preA = DisplayList_new /\ preB = DisplayList_new
    /\ lastOp = "new" /\ nextId = 0
    /\ tasks = [t \in Tasks |-> IdleTask] /\ built = IdleRoot
    /\ image = IdleImage

Next ==
    \/ Paint \/ HitTest \/ HitTestOnResult \/ FindStackingContextWithLayerId
    \/ Optimize \/ DrawContent \/ PaintInto

Spec == Init /\ [][Next]_vars

ClipInit ==
    /\ clip \in {ClippingRegion_empty, ClippingRegion_max}
                   \cup { ClippingRegion_from_rect(r) : r \in ClipRects }
    /\ query = NoQuery
    /\ root = IdleRoot /\ call = NoCall /\ draws = <<>> /\ result = <<>>
    /\ listA = DisplayList_new /\ listB = DisplayList_new
    /\ preA = DisplayList_new /\ preB = DisplayList_new
    /\ lastOp = "new" /\ nextId = 0
    /\ tasks = [t \in Tasks |-> IdleTask] /\ built = IdleRoot
    /\ image = IdleImage

ClipNext ==
    \/ IntersectWithRoundedRect \/ MightIntersectPoint \/ BoundingRect
    \/ IntersectRect \/ Translate

SpecClip == ClipInit /\ [][ClipNext]_vars

ListInit ==
    /\ listA = DisplayList_new /\ listB = DisplayList_new
    /\ preA = DisplayList_new /\ preB = DisplayList_new
    /\ lastOp = "new" /\ nextId = 0
    /\ clip = ClippingRegion_empty /\ query = NoQuery
    /\ root = IdleRoot /\ call = NoCall /\ draws = <<>> /\ result = <<>>
    /\ tasks = [t \in Tasks |-> IdleTask] /\ built = IdleRoot
    /\ image = IdleImage

ListNext == PushBack \/ AppendFrom \/ FormFloatPseudoStackingContext

SpecList == ListInit /\ [][ListNext]_vars

TaskInit ==
    /\ root \in TaskTrees /\ built = root
    /\ tasks = [t \in Tasks |-> IdleTask]
    /\ call = NoCall /\ draws = <<>> /\ result = <<>>
    /\ clip = ClippingRegion_empty /\ query = NoQuery
    /\ listA = DisplayList_new /\ listB = DisplayList_new
    /\ preA = DisplayList_new /\ preB = DisplayList_new
    /\ lastOp = "new" /\ nextId = 0
    /\ image = IdleImage

TaskNext ==
    \/ TaskBeginPaint \/ TaskPaintStep \/ TaskEndPaint
    \/ TaskBeginHitTest \/ TaskHitTestStep

SpecTasks == TaskInit /\ [][TaskNext]_vars

----------------------------------------------------------------------------
(* The ImageClass arm of draw_into_context, one loop test at a time.       *)

\* The loops of an image item about to be entered.
image_loops(image_item) ==
    [image_item |-> image_item, pc |-> "outer",
     x_offset |-> 0, y_offset |-> 0, calls |-> 0]

\* The image items drawn: bounds and stretch_size of every size from zero.
ImageItems ==
    { [base |-> [bounds |-> MkRect(0, 0, Px(w), Px(h))],
       stretch_size |-> Size2D(Px(sw), Px(sh))] :
          w \in 0..MaxImageSize, h \in 0..MaxImageSize,
          sw \in 0..MaxStretch, sh \in 0..MaxStretch }

\* while y_offset < height, test true: let mut x_offset = Au(0).
ImageBeginRow ==
    /\ image.pc = "outer"
    /\ image.y_offset < image.image_item.base.bounds.size.height
    /\ image' = [image EXCEPT !.pc = "inner", !.x_offset = 0]
    /\ UNCHANGED <<clipVars, listVars, treeVars, taskVars>>

\* while x_offset < width, test true: one draw_image call and
\* x_offset = x_offset + stretch_size.width.  The number of calls is
\* counted up to MaxDrawCalls.
ImageDrawTile ==
    /\ image.pc = "inner"
    /\ image.x_offset < image.image_item.base.bounds.size.width
    /\ image' = [image EXCEPT
                    !.calls = IF @ < MaxDrawCalls THEN @ + 1 ELSE @,
                    !.x_offset = @ + image.image_item.stretch_size.width]
    /\ UNCHANGED <<clipVars, listVars, treeVars, taskVars>>

\* while x_offset < width, test false:
\* y_offset = y_offset + stretch_size.height.
ImageEndRow ==
    /\ image.pc = "inner"
    /\ ~(image.x_offset < image.image_item.base.bounds.size.width)
    /\ image' = [image EXCEPT
                    !.pc = "outer",
                    !.y_offset = @ + image.image_item.stretch_size.height]
    /\ UNCHANGED <<clipVars, listVars, treeVars, taskVars>>

\* while y_offset < height, test false: the arm is left.
ImageReturn ==
    /\ image.pc = "outer"
    /\ ~(image.y_offset < image.image_item.base.bounds.size.height)
    /\ image' = [image EXCEPT !.pc = "done"]
    /\ UNCHANGED <<clipVars, listVars, treeVars, taskVars>>

ImageInit ==
    /\ image \in { image_loops(image_item) : image_item \in ImageItems }
    /\ tasks = [t \in Tasks |-> IdleTask] /\ built = IdleRoot
    /\ root = IdleRoot /\ call = NoCall /\ draws = <<>> /\ result = <<>>
    /\ clip = ClippingRegion_empty /\ query = NoQuery
    /\ listA = DisplayList_new /\ listB = DisplayList_new
    /\ preA = DisplayList_new /\ preB = DisplayList_new
    /\ lastOp = "new" /\ nextId = 0

ImageNext == ImageBeginRow \/ ImageDrawTile \/ ImageEndRow \/ ImageReturn

\* The call runs synchronously: a loop that can take a step takes it.
SpecImage == ImageInit /\ [][ImageNext]_vars /\ WF_vars(ImageNext)

----------------------------------------------------------------------------
(* Claims about the display-list mutators (checked under SpecList).        *)

\* The position of element e in a sequence that holds it once.
Pos(s, e) == CHOOSE i \in 1..Len(s) : s[i] = e

\* Every element of part is in whole, in the same relative order.
KeepsOrder(part, whole) ==
    /\ \A i \in 1..Len(part) : \E k \in 1..Len(whole) : whole[k] = part[i]
    /\ \A i, j \in 1..Len(part) :
          i < j => Pos(whole, part[i]) < Pos(whole, part[j])

\* C4: after A.append_from(B) every bucket of A and A's child list is A's
\* old sequence followed by B's old sequence, and B is empty throughout.
C4_AppendFromConcatenates ==
    lastOp = "append_from" =>
        \A field \in Fields :
            /\ listA[field] = preA[field] \o preB[field]
            /\ listB[field] = <<>>

\* C4 witness: append_from has run on two lists that both held content
\* items, the source holding a child context as well.
C4_Witness ==
    /\ lastOp = "append_from"
    /\ preA.content # <<>>
    /\ preB.content # <<>>
    /\ preB.children # <<>>
    /\ listA.children = preB.children

MergedBuckets == Buckets \ {"floats"}

\* C5 as stated: form_float_pseudo_stacking_context grows the float bucket
\* by exactly the old lengths of content, outlines and block backgrounds,
\* and each of these keeps its order inside the float bucket.
C5_GrowsByThreeBuckets ==
    lastOp = "form_float_pseudo_stacking_context" =>
        /\ Len(listA.floats) = Len(preA.floats) + Len(preA.content)
                                 + Len(preA.outlines)
                                 + Len(preA.block_backgrounds_and_borders)
        /\ \A b \in {"content", "outlines", "block_backgrounds_and_borders"} :
              KeepsOrder(preA[b], listA.floats)

\* C5 amended: form_float_pseudo_stacking_context grows the float bucket by
\* exactly the old lengths of the four other buckets (root backgrounds and
\* borders included), and each merged bucket keeps its order inside the
\* float bucket.
C5_GrowsByFourBuckets ==
    lastOp = "form_float_pseudo_stacking_context" =>
        /\ Len(listA.floats) = Len(preA.floats) + Len(preA.content)
                                 + Len(preA.outlines)
                                 + Len(preA.block_backgrounds_and_borders)
                                 + Len(preA.background_and_borders)
        /\ \A b \in MergedBuckets : KeepsOrder(preA[b], listA.floats)
        /\ KeepsOrder(preA.floats, listA.floats)

\* C5 witness: the merge has run on a list with a root background item and
\* two content items.
C5_Witness ==
    /\ lastOp = "form_float_pseudo_stacking_context"
    /\ preA.background_and_borders # <<>>
    /\ Len(preA.content) >= 2
    /\ Len(listA.floats) = 3

----------------------------------------------------------------------------
(* Claims about clipping regions (checked under SpecClip).                 *)

\* The point lies in the rectangle (pixels are half-open cells).
InRect(rect, point) ==
    /\ rect.origin.x <= point.x /\ point.x < max_x(rect)
    /\ rect.origin.y <= point.y /\ point.y < max_y(rect)

Sq(n) == n * n

\* The point lies in the corner square of radius r at corner (cx, cy) of
\* the rectangle, (sx, sy) pointing into the rectangle, and outside the
\* quarter disc of that corner.
CutByCorner(cx, cy, sx, sy, r, point) ==
    LET dx == (point.x - cx) * sx
        dy == (point.y - cy) * sy
    IN  /\ r > 0 /\ dx >= 0 /\ dx < r /\ dy >= 0 /\ dy < r
        /\ Sq(r - dx) + Sq(r - dy) > Sq(r)

\* The point lies in the rounded rectangle of a complex region.
InRoundedRect(c, point) ==
    /\ InRect(c.rect, point)
    /\ ~CutByCorner(c.rect.origin.x, c.rect.origin.y, 1, 1, c.radii.top_left, point)
    /\ ~CutByCorner(max_x(c.rect), c.rect.origin.y, -1, 1, c.radii.top_right, point)
    /\ ~CutByCorner(max_x(c.rect), max_y(c.rect), -1, -1, c.radii.bottom_right, point)
    /\ ~CutByCorner(c.rect.origin.x, max_y(c.rect), 1, -1, c.radii.bottom_left, point)

InTrueRegion(region, point) ==
    /\ InRect(region.main, point)
    /\ \A i \in 1..Len(region.complex) : InRoundedRect(region.complex[i], point)

InBoundingBoxes(region, point) ==
    /\ InRect(region.main, point)
    /\ \A i \in 1..Len(region.complex) : InRect(region.complex[i].rect, point)

\* C6: might_intersect_point answers true for every point of the true
\* (rounded) region, and for every point inside main and all the complex
\* bounding rectangles even when a rounded corner cuts it off.
C6_NoFalseNegatives ==
    query.op = "might_intersect_point" =>
        /\ InTrueRegion(clip, query.point) => query.answer
        /\ InBoundingBoxes(clip, query.point) => query.answer

\* C6 witness: a true answer for a point that is inside main and inside a
\* complex bounding rectangle but outside its rounded corner.
C6_Witness ==
    /\ query.op = "might_intersect_point"
    /\ query.answer
    /\ clip.complex # <<>>
    /\ InBoundingBoxes(clip, query.point)
    /\ ~InTrueRegion(clip, query.point)

\* Two complex regions with disjoint bounding rectangles were added.
TwoDisjointComplex ==
    /\ Len(clip.complex) = 2
    /\ ~Rect_intersects(clip.complex[1].rect, clip.complex[2].rect)

\* The smallest rectangle around a nonempty set of rectangles.
BoundingBoxOf(rects) ==
    LET x0 == CHOOSE v \in { r.origin.x : r \in rects } :
                  \A r \in rects : v <= r.origin.x
        y0 == CHOOSE v \in { r.origin.y : r \in rects } :
                  \A r \in rects : v <= r.origin.y
        x1 == CHOOSE v \in { max_x(r) : r \in rects } :
                  \A r \in rects : v >= max_x(r)
        y1 == CHOOSE v \in { max_y(r) : r \in rects } :
                  \A r \in rects : v >= max_y(r)
    IN  MkRect(x0, y0, x1 - x0, y1 - y0)

OutsideBoth(point) ==
    /\ ~InRect(clip.complex[1].rect, point)
    /\ ~InRect(clip.complex[2].rect, point)

\* C10 as stated: with two disjoint complex regions, bounding_rect() is the
\* union of the two complex rectangles, and might_intersect_point is false
\* for every point outside both.
C10_BoundingRectOfComplexOnly ==
    TwoDisjointComplex =>
        /\ query.op = "bounding_rect" =>
              query.answer = BoundingBoxOf({clip.complex[1].rect, clip.complex[2].rect})
        /\ (query.op = "might_intersect_point" /\ OutsideBoth(query.point)) =>
              ~query.answer

\* C10 amended: with two disjoint complex regions, bounding_rect() is the
\* union of main and the two complex rectangles, and might_intersect_point
\* is false for every point outside both complex rectangles.
C10_BoundingRectIncludesMain ==
    TwoDisjointComplex =>
        /\ query.op = "bounding_rect" =>
              query.answer = BoundingBoxOf({clip.main, clip.complex[1].rect,
                                            clip.complex[2].rect})
        /\ (query.op = "might_intersect_point" /\ OutsideBoth(query.point)) =>
              ~query.answer

\* C10 witness: bounding_rect() was asked of a region with two disjoint
\* complex rectangles whose main rectangle reaches outside their union.
C10_Witness ==
    /\ TwoDisjointComplex
    /\ query.op = "bounding_rect"
    /\ query.answer # BoundingBoxOf({clip.complex[1].rect, clip.complex[2].rect})

----------------------------------------------------------------------------
(* Claims about painting and hit testing (checked under Spec).             *)

\* The whole tree, in pixels.
FullTile == MkRect(0, 0, 6, 6)

\* The nodes of the drawing calls of a call log, in order.
RECURSIVE NodesOfCalls(_)
NodesOfCalls(calls) ==
    IF calls = <<>>
    THEN <<>>
    ELSE IF Head(calls).op \in DrawOps
         THEN <<Head(calls).node>> \o NodesOfCalls(Tail(calls))
         ELSE NodesOfCalls(Tail(calls))

\* The nodes of a hit-test result, in order.
NodesOfResult(res) == [i \in 1..Len(res) |-> res[i].node]

\* The first place of e in s.
FirstPos(s, e) == CHOOSE i \in 1..Len(s) : s[i] = e /\ \A k \in 1..(i - 1) : s[k] # e
LastPos(s, e) == CHOOSE i \in 1..Len(s) : s[i] = e /\ \A k \in (i + 1)..Len(s) : s[k] # e
Occurs(s, e) == \E i \in 1..Len(s) : s[i] = e

CeilDiv(a, b) == (a + b - 1) \div b

\* The number of drawing calls one item stands for: none for a fully
\* transparent solid colour, one per tile for an image.
CallsOf(item) ==
    CASE item.kind = "SolidColorClass" -> IF item.color_a = 0 THEN 0 ELSE 1
      [] item.kind = "ImageClass" ->
             CeilDiv(item.base.bounds.size.width, item.stretch_size.width)
                 * CeilDiv(item.base.bounds.size.height, item.stretch_size.height)
      [] OTHER -> 1

Repeat(e, n) == [i \in 1..n |-> e]

RECURSIVE ExpectedBucket(_)
ExpectedBucket(items) ==
    IF items = <<>>
    THEN <<>>
    ELSE Repeat(Head(items).base.metadata.node, CallsOf(Head(items)))
             \o ExpectedBucket(Tail(items))

RECURSIVE ExpectedDraws(_, _)
RECURSIVE ExpectedKidsAt(_, _, _)
RECURSIVE ExpectedKidsBetween(_, _, _, _)

\* The draws of the children without a layer whose z-index is z, in list
\* order.
ExpectedKidsAt(kids, tile_bounds, z) ==
    IF kids = <<>>
    THEN <<>>
    ELSE (IF Head(kids).z_index = z /\ Head(kids).layer = None
          THEN ExpectedDraws(Head(kids),
                             compute_tile_rect_for_child_stacking_context(tile_bounds,
                                                                          Head(kids)))
          ELSE <<>>)
             \o ExpectedKidsAt(Tail(kids), tile_bounds, z)

\* The draws of the children whose z-index is in lo..hi, by ascending
\* z-index.
ExpectedKidsBetween(kids, tile_bounds, lo, hi) ==
    IF lo > hi
    THEN <<>>
    ELSE ExpectedKidsAt(kids, tile_bounds, lo)
             \o ExpectedKidsBetween(kids, tile_bounds, lo + 1, hi)

MinZ == CHOOSE z \in ZIndexes : \A other \in ZIndexes : z <= other
MaxZ == CHOOSE z \in ZIndexes : \A other \in ZIndexes : other <= z

\* The order of CSS 2.1 Appendix E on the retained items and children.
ExpectedDraws(self, tile_bounds) ==
    LET retained == optimize(tile_bounds, self.display_list)
    IN  ExpectedBucket(retained.background_and_borders)
            \o ExpectedKidsBetween(retained.children, tile_bounds, MinZ, -1)
            \o ExpectedBucket(retained.block_backgrounds_and_borders)
            \o ExpectedBucket(retained.floats)
            \o ExpectedBucket(retained.content)
            \o ExpectedKidsBetween(retained.children, tile_bounds, 0, MaxZ)
            \o ExpectedBucket(retained.outlines)

\* C1: the drawing calls of a paint are, at every depth, the retained
\* backgrounds and borders, the children of negative z-index (ascending,
\* ties in list order), the block backgrounds and borders, the floats, the
\* content, the children of non-negative z-index (ascending, ties in list
\* order) and the outlines.
C1_PaintOrder ==
    call.op = "paint" =>
        NodesOfCalls(draws) = ExpectedDraws(root, call.tile_bounds)

\* C1 witness: a paint of the whole tree whose root has two children
\* without a layer, the first of the list above the content and the second
\* below it, both drawn.
C1_Witness ==
    /\ call.op = "paint"
    /\ call.tile_bounds = FullTile
    /\ Len(root.display_list.children) = 2
    /\ root.display_list.children[1].z_index > 0
    /\ root.display_list.children[2].z_index < 0
    /\ \A i \in 1..2 : root.display_list.children[i].layer = None
    /\ Len(root.display_list.content) = 2
    /\ Occurs(NodesOfCalls(draws), <<<<1>>, "content", 1>>)
    /\ Occurs(NodesOfCalls(draws), <<<<2>>, "content", 1>>)

\* The nodes painting the whole tree draws, in order.
PaintedNodes ==
    NodesOfCalls(optimize_and_draw_into_context(root, FreshPaintContext, FullTile,
                                                Matrix2D_identity, None)
                     .draw_target.calls)

\* C2: hit_test with topmost_only = false returns the matching items in
\* the reverse of the order in which painting the same tree draws them:
\* of two returned items that painting draws, the one returned first is
\* drawn last.
C2_HitTestReversesPaintOrder ==
    (call.op = "hit_test" /\ ~call.topmost_only) =>
        LET hits == NodesOfResult(result)
        IN  \A i, j \in 1..Len(hits) :
                (i < j /\ Occurs(PaintedNodes, hits[i]) /\ Occurs(PaintedNodes, hits[j]))
                    => FirstPos(PaintedNodes, hits[j]) < FirstPos(PaintedNodes, hits[i])

\* C3: hit_test with topmost_only = true, started on an empty result,
\* leaves at most one element, the first element of the result of
\* hit_test with topmost_only = false for the same tree and point; the
\* one result is empty exactly when the other is.
C3_TopmostIsFirstOfAll ==
    (call.op = "hit_test" /\ call.topmost_only) =>
        LET all == hit_test(root, call.point, <<>>, FALSE)
        IN  /\ Len(result) <= 1
            /\ (result = <<>>) <=> (all = <<>>)
            /\ result # <<>> => result[1] = all[1]

\* C3 witness: a topmost_only hit test that returns one element at a
\* point where several items of the tree match, at more than one depth.
C3_Witness ==
    /\ call.op = "hit_test"
    /\ call.topmost_only
    /\ Len(result) = 1
    /\ LET all == hit_test(root, call.point, <<>>, FALSE)
       IN  /\ Len(all) >= 3
           /\ \E i, j \in 1..Len(all) : all[i].node[1] # all[j].node[1]

\* The items of a tree, each with the query point in the space of its
\* stacking context.
RECURSIVE ItemsAt(_, _)
ItemsAt(self, point0) ==
    LET point == local_point(self, point0)
        kids == self.display_list.children
    IN  UNION { { [item |-> self.display_list[b][i], point |-> point] :
                      i \in 1..Len(self.display_list[b]) } : b \in Buckets }
            \cup UNION { ItemsAt(kids[k], point) : k \in 1..Len(kids) }

\* The point is strictly inside the bounds shrunk by the border widths.
StrictlyInsideInterior(border, point) ==
    LET left == border.base.bounds.origin.x + border.border_widths.left
        right == max_x(border.base.bounds) - border.border_widths.right
        top == border.base.bounds.origin.y + border.border_widths.top
        bottom == max_y(border.base.bounds) - border.border_widths.bottom
    IN  /\ left < point.x /\ point.x < right
        /\ top < point.y /\ point.y < bottom

\* C7: hit_test never returns a border item for a point strictly inside
\* its interior rectangle, whatever its clip and pointing are.
C7_BorderInteriorExcluded ==
    call.op = "hit_test" =>
        \A e \in ItemsAt(root, call.point) :
            (e.item.kind = "BorderClass" /\ StrictlyInsideInterior(e.item, e.point))
                => ~Occurs(NodesOfResult(result), e.item.base.metadata.node)

\* C7 witness: a hit test that returns other items at a point strictly
\* inside the interior of a border item of a child context, the border
\* having a pointer and a clip and bounds that hold the point.
C7_Witness ==
    /\ call.op = "hit_test"
    /\ ~call.topmost_only
    /\ result # <<>>
    /\ \E e \in ItemsAt(root, call.point) :
          /\ e.item.kind = "BorderClass"
          /\ e.item.base.metadata.node[1] # <<>>
          /\ StrictlyInsideInterior(e.item, e.point)
          /\ e.item.base.metadata.pointing # None
          /\ e.item.base.clip.complex # <<>>
          /\ might_intersect_point(e.item.base.clip, e.point)
          /\ rect_contains_point(e.item.base.bounds, e.point)

\* C8: no hit test, with topmost_only true or false and at any depth,
\* returns a metadata whose pointing is None.
C8_PointingNoneNeverReturned ==
    call.op = "hit_test" =>
        \A i \in 1..Len(result) : result[i].pointing # None

\* C8 witness: a hit test that returns an item at a point inside the
\* bounds and the clip of an item of a child context whose pointing is
\* None.
C8_Witness ==
    /\ call.op = "hit_test"
    /\ result # <<>>
    /\ \E e \in ItemsAt(root, call.point) :
          /\ e.item.base.metadata.pointing = None
          /\ e.item.kind = "SolidColorClass"
          /\ e.item.base.metadata.node[1] # <<>>
          /\ might_intersect_point(e.item.base.clip, e.point)
          /\ rect_contains_point(e.item.base.bounds, e.point)

\* Some item of the context or of its descendants passes the tests of
\* hit_test_in_list at the point.
HoldsMatch(self, point0) ==
    \E e \in ItemsAt(self, point0) : is_hit(e.item, e.point)

\* Child k of the root has a z-index that is not negative, has no layer
\* and holds an item matching the point.
MatchingUpperKid(k, point) ==
    LET kid == root.display_list.children[k]
    IN  kid.z_index >= 0 /\ kid.layer = None /\ HoldsMatch(kid, point)

IsRootBackground(node) == node[1] = <<>> /\ node[2] = "background_and_borders"
IsOfKid(node, k) == node[1] # <<>> /\ node[1][1] = k

----------------------------------------------------------------------------
(* Claims about calls in progress at once (checked under SpecTasks).       *)

\* C11: however paint calls on tiles that do not overlap and hit_test
\* calls interleave on one shared tree, the tree stays as it was built,
\* and every call that has returned issued the drawing calls, or returned
\* the result, of the same call running alone.
C11_InterleavingIndependent ==
    /\ root = built
    /\ \A t \in Tasks :
          /\ (tasks[t].kind = "paint" /\ tasks[t].returned) =>
                tasks[t].calls =
                    optimize_and_draw_into_context(built, FreshPaintContext,
                                                   tasks[t].tile_bounds,
                                                   Matrix2D_identity, None)
                        .draw_target.calls
          /\ (tasks[t].kind = "hit_test" /\ tasks[t].returned) =>
                tasks[t].result =
                    hit_test(built, tasks[t].point, <<>>, tasks[t].topmost_only)

\* C11 witness: a paint call and a hit_test call on the same tree, whose
\* child list does not ascend by z-index, have both returned, the paint
\* with drawing calls and the hit test with several items.
C11_Witness ==
    /\ built.display_list.children[1].z_index > built.display_list.children[2].z_index
    /\ tasks["t1"].kind = "paint" /\ tasks["t1"].returned
    /\ tasks["t1"].calls # <<>>
    /\ tasks["t2"].kind = "hit_test" /\ tasks["t2"].returned
    /\ Len(tasks["t2"].result) >= 2

----------------------------------------------------------------------------
(* Claims about layer lookup (checked under Spec).                         *)

\* The contexts of a tree in pre-order: a context before its children, the
\* children in list order.
RECURSIVE PreOrder(_)
RECURSIVE PreOrderOfAll(_)
PreOrderOfAll(kids) ==
    IF kids = <<>> THEN <<>> ELSE PreOrder(Head(kids)) \o PreOrderOfAll(Tail(kids))
PreOrder(self) == <<self>> \o PreOrderOfAll(self.display_list.children)

HasLayerId(self, layer_id) == self.layer = <<[id |-> layer_id]>>

\* C12: find_stacking_context_with_layer_id returns the first context in
\* pre-order whose layer has the id, and none exactly when no context of
\* the tree has a layer with that id.
C12_FindsFirstInPreOrder ==
    call.op = "find_stacking_context_with_layer_id" =>
        LET order == PreOrder(root)
            hits == { i \in 1..Len(order) : HasLayerId(order[i], call.layer_id) }
        IN  /\ (call.found = <<>>) <=> (hits = {})
            /\ hits # {} =>
                  call.found = <<order[CHOOSE i \in hits : \A j \in hits : i <= j]>>

\* C12 witness: a lookup that returns a child of the root, in a tree with
\* two contexts whose layers have the id looked up.
C12_Witness ==
    /\ call.op = "find_stacking_context_with_layer_id"
    /\ call.found # <<>>
    /\ Cardinality({ i \in 1..Len(PreOrder(root)) :
                        HasLayerId(PreOrder(root)[i], call.layer_id) }) = 2
    /\ call.found = <<root.display_list.children[1]>>

----------------------------------------------------------------------------
(* Further claims about painting and hit testing (checked under Spec).     *)

\* The context at the end of a path of child indices.
RECURSIVE ContextAt(_, _)
ContextAt(self, path) ==
    IF path = <<>>
    THEN self
    ELSE ContextAt(self.display_list.children[Head(path)], Tail(path))

\* The path leads through, or to, a child context that owns a layer.
UnderLayer(path) ==
    \E n \in 1..Len(path) : ContextAt(root, SubSeq(path, 1, n)).layer # None

\* The tree without its child contexts that own a layer, at every depth.
RECURSIVE WithoutLayeredKids(_)
RECURSIVE LayerlessOf(_)
LayerlessOf(kids) ==
    IF kids = <<>>
    THEN <<>>
    ELSE (IF Head(kids).layer = None
          THEN <<WithoutLayeredKids(Head(kids))>>
          ELSE <<>>) \o LayerlessOf(Tail(kids))
WithoutLayeredKids(self) ==
    [self EXCEPT !.display_list.children = LayerlessOf(@)]

\* C13: painting issues no drawing call for an item of a child context
\* that owns a layer, or of a descendant of such a child, whatever its
\* z-index, and the calls it issues are those of painting the tree
\* without these children.
C13_LayeredKidsNotPainted ==
    call.op = "paint" =>
        /\ \A i \in 1..Len(NodesOfCalls(draws)) : ~UnderLayer(NodesOfCalls(draws)[i][1])
        /\ draws = optimize_and_draw_into_context(
                       WithoutLayeredKids(root), FreshPaintContext, call.tile_bounds,
                       Matrix2D_identity, None).draw_target.calls

\* C13 witness: a paint of the whole tree that draws the items of one child
\* and none of its sibling, which owns a layer and holds items inside the
\* tile.
C13_Witness ==
    /\ call.op = "paint"
    /\ call.tile_bounds = FullTile
    /\ \E k, l \in 1..Len(root.display_list.children) :
          /\ root.display_list.children[k].layer = None
          /\ root.display_list.children[l].layer # None
          /\ root.display_list.children[l].display_list.content # <<>>
          /\ \E i \in 1..Len(NodesOfCalls(draws)) : IsOfKid(NodesOfCalls(draws)[i], k)
          /\ \A i \in 1..Len(NodesOfCalls(draws)) : ~IsOfKid(NodesOfCalls(draws)[i], l)

C15_ImageDrawingTerminates == <>(image.pc = "done")

\* The same for the items whose stretch_size is positive both ways.
C15_PositiveStretchTerminates ==
    (/\ image.image_item.stretch_size.width > 0
     /\ image.image_item.stretch_size.height > 0) ~> (image.pc = "done")

\* The nodes of the items of a bucket, last inserted first.
NodesReversed(bucket) ==
    [i \in 1..Len(bucket) |-> bucket[Len(bucket) + 1 - i].base.metadata.node]

\* The order in which C16 has the items of a context visited, the children
\* from the last of the child list to the first.
RECURSIVE VisitOrder(_)
RECURSIVE VisitKids(_, _, _)
VisitKids(kids, k, upper) ==
    IF k = 0
    THEN <<>>
    ELSE (IF (kids[k].z_index >= 0) = upper THEN VisitOrder(kids[k]) ELSE <<>>)
             \o VisitKids(kids, k - 1, upper)

VisitOrder(self) ==
    LET dl == self.display_list
    IN  NodesReversed(dl.outlines)
            \o VisitKids(dl.children, Len(dl.children), TRUE)
            \o NodesReversed(dl.content)
            \o NodesReversed(dl.floats)
            \o NodesReversed(dl.block_backgrounds_and_borders)
            \o VisitKids(dl.children, Len(dl.children), FALSE)
            \o NodesReversed(dl.background_and_borders)

\* The nodes of the items that pass the tests of hit_test_in_list.
MatchingNodes(self, point0) ==
    { e.item.base.metadata.node :
          e \in { m \in ItemsAt(self, point0) : is_hit(m.item, m.point) } }

RECURSIVE IsSubsequence(_, _)
IsSubsequence(part, whole) ==
    IF part = <<>> THEN TRUE
    ELSE IF whole = <<>> THEN FALSE
    ELSE IF Head(part) = Head(whole)
         THEN IsSubsequence(Tail(part), Tail(whole))
         ELSE IsSubsequence(part, Tail(whole))

\* The rectangle, in Au, shares a point with the tile, in pixels.
MeetsTile(rect, tile) ==
    /\ rect.origin.x < Px(tile.origin.x + tile.size.width)
    /\ Px(tile.origin.x) < rect.origin.x + rect.size.width
    /\ rect.origin.y < Px(tile.origin.y + tile.size.height)
    /\ Px(tile.origin.y) < rect.origin.y + rect.size.height

\* e is an element of the sequence.
IsIn(e, s) == \E i \in 1..Len(s) : s[i] = e

\* C17: every bucket and the child list of the optimizer's output is a
\* subsequence of the same field of the input, every item whose bounds
\* intersect the tile is kept, and every child whose overflow rectangle
\* moved by its bounds origin intersects the tile is kept.
C17_OptimizerOnlyRemoves ==
    call.op = "optimize" =>
        LET input == root.display_list
            output == call.display_list
        IN  /\ \A field \in Fields : IsSubsequence(output[field], input[field])
            /\ \A b \in Buckets : \A i \in 1..Len(input[b]) :
                   MeetsTile(input[b][i].base.bounds, call.tile_bounds)
                       => IsIn(input[b][i], output[b])
            /\ \A k \in 1..Len(input.children) :
                   LET kid == input.children[k]
                       moved == MkRect(kid.overflow.origin.x + kid.bounds.origin.x,
                                       kid.overflow.origin.y + kid.bounds.origin.y,
                                       kid.overflow.size.width,
                                       kid.overflow.size.height)
                   IN  MeetsTile(moved, call.tile_bounds)
                           => IsIn(kid, output.children)

\* C17 witness: the optimizer has removed the first of two content items
\* and kept the second, and has kept a child.
C17_Witness ==
    /\ call.op = "optimize"
    /\ Len(root.display_list.content) = 2
    /\ call.display_list.content = <<root.display_list.content[2]>>
    /\ root.display_list.children # <<>>
    /\ call.display_list.children = root.display_list.children

\* The pushes and pops of clips that C18 has the items cause, active being
\* the transient clip as the first of them is drawn.
RECURSIVE ExpectedClipEvents(_, _)
ExpectedClipEvents(items, active) ==
    IF items = <<>>
    THEN <<>>
    ELSE LET this_clip == Head(items).base.clip
             popped == IF active = None THEN <<>> ELSE <<[op |-> "pop_clip"]>>
             pushed == <<[op |-> "push_clip", clip |-> this_clip]>>
         IN  (IF active = Some(this_clip) THEN <<>> ELSE popped \o pushed)
                 \o ExpectedClipEvents(Tail(items), Some(this_clip))

IsClipEvent(event) == event.op \in {"push_clip", "pop_clip"}
IsPush(event) == event.op = "push_clip"

\* C18: an item pushes a transient clip exactly when its clip differs from
\* the active transient clip or none is active, so consecutive items of
\* equal clip cause one push, and the active transient clip after an item
\* is that item's clip, a fully transparent solid colour included.
C18_TransientClipBatched ==
    call.op = "draw_content" =>
        LET items == root.display_list.content
            calls == call.left.draw_target.calls
        IN  /\ SelectSeq(calls, IsClipEvent)
                    = ExpectedClipEvents(items, call.entering.transient_clip)
            /\ items # <<>> =>
                   call.left.transient_clip = Some(items[Len(items)].base.clip)

\* C18 witness: a fully transparent solid colour and a second item of the
\* same clip have been drawn on an active transient clip that differs:
\* one push, made for the transparent item, and one fill.
C18_Witness ==
    /\ call.op = "draw_content"
    /\ LET items == root.display_list.content
           calls == call.left.draw_target.calls
       IN  /\ Len(items) = 2
           /\ items[1].kind = "SolidColorClass" /\ items[1].color_a = 0
           /\ items[2].kind = "SolidColorClass" /\ items[2].color_a # 0
           /\ items[2].base.clip = items[1].base.clip
           /\ call.entering.transient_clip # None
           /\ call.entering.transient_clip # Some(items[1].base.clip)
           /\ Len(SelectSeq(calls, IsPush)) = 1
           /\ IsPush(calls[2])
           /\ Len(calls) = 3
           /\ call.left.transient_clip = Some(items[2].base.clip)

\* The point less the bounds origin of the context, then through the
\* transform of the context as painting multiplies it in; the transform is
\* in pixels and the point in Au.
ForwardLocal(self, point) ==
    LET x == point.x - self.bounds.origin.x
        y == point.y - self.bounds.origin.y
        m == self.transform
    IN  Point2D(x * m.m11 + y * m.m21 + Px(m.m31),
                x * m.m12 + y * m.m22 + Px(m.m32))

\* The nodes of the items of the context and of its descendants that pass
\* the tests of hit_test_in_list at the forward-converted point, each
\* child taking the converted point of its parent as its query point.
RECURSIVE ForwardMatches(_, _)
ForwardMatches(self, point0) ==
    LET point == ForwardLocal(self, point0)
        kids == self.display_list.children
    IN  UNION { { self.display_list[b][i].base.metadata.node :
                      i \in { j \in 1..Len(self.display_list[b]) :
                                  is_hit(self.display_list[b][j], point) } } :
                b \in Buckets }
            \cup UNION { ForwardMatches(kids[k], point) : k \in 1..Len(kids) }

\* C19: hit_test tests the items of every context at the query point less
\* the bounds origin of the context and then through its forward
\* transform, and hands that converted point to the children.
C19_ForwardTransformedPoint ==
    (call.op = "hit_test" /\ ~call.topmost_only) =>
        { result[i].node : i \in 1..Len(result) } = ForwardMatches(root, call.point)

\* C19 witness: a hit test has returned an item of a child with a transform
\* other than the identity, the bounds of the item not holding the point
\* less the bounds origins alone.
C19_Witness ==
    /\ call.op = "hit_test" /\ ~call.topmost_only
    /\ Len(root.display_list.children) = 1
    /\ LET kid == root.display_list.children[1]
           moved == Point2D(call.point.x - root.bounds.origin.x - kid.bounds.origin.x,
                            call.point.y - root.bounds.origin.y - kid.bounds.origin.y)
       IN  /\ kid.transform # Matrix2D_identity
           /\ \E i \in 1..Len(result) :
                  /\ IsOfKid(result[i].node, 1)
                  /\ ~rect_contains_point(
                          kid.display_list[result[i].node[2]][result[i].node[3]].base.bounds,
                          moved)

\* The last n elements of a sequence.
Suffix(s, n) == SubSeq(s, Len(s) - n + 1, Len(s))

\* Every element of first comes, in s, before every element of second.
AllBefore(first, second, s) ==
    \A i \in 1..Len(first), j \in 1..Len(second) :
        \A p, q \in 1..Len(s) : (s[p] = first[i] /\ s[q] = second[j]) => p < q

\* C20 as stated: after form_float_pseudo_stacking_context the float bucket
\* ends with its old items, the former content comes before the former
\* outlines, content, outlines and block backgrounds are empty, and the
\* root background bucket and the child list are as they were.
C20_RootBackgroundsUntouched ==
    lastOp = "form_float_pseudo_stacking_context" =>
        /\ Len(listA.floats) >= Len(preA.floats)
        /\ Suffix(listA.floats, Len(preA.floats)) = preA.floats
        /\ AllBefore(preA.content, preA.outlines, listA.floats)
        /\ \A b \in {"content", "outlines", "block_backgrounds_and_borders"} :
              listA[b] = <<>>
        /\ listA.background_and_borders = preA.background_and_borders
        /\ listA.children = preA.children

\* C20 amended: after form_float_pseudo_stacking_context the float bucket
\* is the former root backgrounds, block backgrounds, content and outlines,
\* in that order, ahead of its old items; the four other buckets, the root
\* background bucket included, are empty; the child list is as it was.
C20_MergesAllFourAheadOfFloats ==
    lastOp = "form_float_pseudo_stacking_context" =>
        /\ listA.floats = preA.background_and_borders
                              \o preA.block_backgrounds_and_borders
                              \o preA.content \o preA.outlines \o preA.floats
        /\ \A b \in MergedBuckets : listA[b] = <<>>
        /\ listA.children = preA.children

\* C20 witness: the merge has run on a list that held a float item, a
\* content item and an outline item.
C20_Witness ==
    /\ lastOp = "form_float_pseudo_stacking_context"
    /\ preA.floats # <<>> /\ preA.content # <<>> /\ preA.outlines # <<>>
    /\ Len(listA.floats) = 3

\* The rectangle common to two rectangles, the zero rectangle when they
\* share no point.
CommonRect(a, b) ==
    LET left == Max(a.origin.x, b.origin.x)
        right == Min(a.origin.x + a.size.width, b.origin.x + b.size.width)
        top == Max(a.origin.y, b.origin.y)
        bottom == Min(a.origin.y + a.size.height, b.origin.y + b.size.height)
    IN  IF left < right /\ top < bottom
        THEN MkRect(left, top, right - left, bottom - top)
        ELSE MkRect(0, 0, 0, 0)

\* The rectangle moved by the vector, its size kept.
Shifted(rect, delta) ==
    MkRect(rect.origin.x + delta.x, rect.origin.y + delta.y,
           rect.size.width, rect.size.height)

\* C21: intersect_rect returns a region whose main is the intersection of
\* the old main with the rectangle, the zero rectangle when they are
\* disjoint, and whose complex list is the old one; translate shifts main
\* and the rectangle of every complex region by delta, keeps their number,
\* order and radii, and translating the answer by -delta gives the region
\* back.
C21_IntersectRectAndTranslate ==
    /\ query.op = "intersect_rect" =>
           /\ clip.main = CommonRect(query.self.main, query.rect)
           /\ clip.complex = query.self.complex
    /\ query.op = "translate" =>
           LET answer == query.answer
               back == Point2D(0 - query.delta.x, 0 - query.delta.y)
           IN  /\ answer.main = Shifted(clip.main, query.delta)
               /\ Len(answer.complex) = Len(clip.complex)
               /\ \A i \in 1..Len(clip.complex) :
                      /\ answer.complex[i].rect = Shifted(clip.complex[i].rect, query.delta)
                      /\ answer.complex[i].radii = clip.complex[i].radii
               /\ translate(answer, back) = clip

\* C21 witness: a region narrowed by intersect_rect to a rectangle no
\* constructor was given, holding two complex regions of different radii
\* and rectangles, has been translated by a vector with no zero
\* component.
C21_Witness ==
    /\ query.op = "translate"
    /\ query.delta.x # 0 /\ query.delta.y # 0
    /\ clip.main \notin {ZERO_RECT, MAX_RECT} \cup ClipRects
    /\ Len(clip.complex) = 2
    /\ clip.complex[1].radii # clip.complex[2].radii
    /\ clip.complex[1].rect # clip.complex[2].rect
    /\ query.answer # clip

\* The number of events with one of the ops among the first n of a log.
CountOps(log, n, ops) == Cardinality({ i \in 1..n : log[i].op \in ops })

\* The events of the opening ops less those of the closing ops among the
\* first n of a log.
Depth(log, n, opening, closing) ==
    CountOps(log, n, opening) - CountOps(log, n, closing)

\* Every closing event of the log answers an opening event before it, and
\* none is left open at the end.
Nested(log, opening, closing) ==
    /\ \A n \in 1..Len(log) : Depth(log, n, opening, closing) >= 0
    /\ Depth(log, Len(log), opening, closing) = 0

\* The context a paint_into call was made on.
PaintedInto == IF call.kid = 0 THEN root ELSE root.display_list.children[call.kid]

\* C22: when optimize_and_draw_into_context returns, at the root and at a
\* child, the transform of the draw target is the one it had on entry, the
\* clips pushed have all been popped, and a context with filters or a
\* blend mode other than normal has had its temporary surface composited
\* back once, with its filters and blend mode, as the last call and after
\* every drawing call.
C22_PaintBalanced ==
    call.op = "paint_into" =>
        LET self == PaintedInto
            log == call.left.draw_target.calls
            isolated == self.filters # <<>> \/ self.blend_mode # "normal"
            inner == IF isolated THEN SubSeq(log, 2, Len(log) - 1) ELSE log
        IN  /\ call.left.draw_target.transform = call.entering.draw_target.transform
            /\ call.left.clip_rect = call.entering.clip_rect
            /\ call.left.transient_clip = call.entering.transient_clip
            /\ Nested(log, {"push_clip"}, {"pop_clip"})
            /\ Nested(inner, {"create_temporary_draw_target"},
                      {"draw_temporary_draw_target"})
            /\ isolated =>
                   /\ Len(log) >= 2
                   /\ log[1].op = "create_temporary_draw_target"
                   /\ log[Len(log)] = [op |-> "draw_temporary_draw_target",
                                       filters |-> self.filters,
                                       blend_mode |-> self.blend_mode]
            /\ ~isolated => CountOps(log, Len(log), {"draw_temporary_draw_target"})
                                = CountOps(inner, Len(inner),
                                           {"create_temporary_draw_target"})

\* C22 witness: a root with a filter, painted into a draw target with a
\* transform other than the identity, has drawn an item of its own and a
\* child with a blend mode that pushed its clip rect and a transient clip;
\* two surfaces were composited back.
C22_Witness ==
    /\ call.op = "paint_into" /\ call.kid = 0
    /\ call.entering.draw_target.transform # Matrix2D_identity
    /\ root.filters # <<>>
    /\ Len(root.display_list.children) = 1
    /\ root.display_list.children[1].blend_mode # "normal"
    /\ LET log == call.left.draw_target.calls
       IN  /\ CountOps(log, Len(log), {"draw_temporary_draw_target"}) = 2
           /\ CountOps(log, Len(log), {"push_clip"}) >= 3
           /\ \E i \in 1..Len(log) :
                  log[i].op \in DrawOps /\ IsOfKid(log[i].node, 1)
           /\ \E i \in 1..Len(log) :
                  log[i].op \in DrawOps /\ log[i].node[1] = <<>>

\* C23: in a hit test entered with topmost_only = true on an empty result,
\* the result is empty on entry to every call of the recursion, so the
\* assertion holds in each of them, and the traversal stops at the first
\* match: one element at most is returned.
C23_ChildrenEnteredOnEmptyResult ==
    (call.op = "hit_test" /\ call.topmost_only) =>
        /\ \A n \in 1..Len(call.asserted) :
              /\ call.asserted[n].result = <<>>
              /\ debug_assert_holds(call.topmost_only, call.asserted[n].result)
        /\ Len(result) <= 1

\* C23 witness: a hit test with topmost_only = true has made three calls of
\* the recursion or more and has returned one match, at a point where
\* three items or more match.
C23_Witness ==
    /\ call.op = "hit_test" /\ call.topmost_only
    /\ Len(call.asserted) >= 3
    /\ Len(result) = 1
    /\ Len(hit_test(root, call.point, <<>>, FALSE)) >= 3

\* The contexts a hit test has entered.
Visited == { call.asserted[n].self : n \in 1..Len(call.asserted) }

\* The contexts of the tree, at every depth.
AllContexts == { PreOrder(root)[n] : n \in 1..Len(PreOrder(root)) }

\* The contexts painting the tree on a tile draws an item of.
PaintedContexts(tile_bounds) ==
    LET nodes == NodesOfCalls(optimize_and_draw_into_context(
                                  root, FreshPaintContext, tile_bounds,
                                  Matrix2D_identity, None).draw_target.calls)
    IN  { ContextAt(root, nodes[n][1]) : n \in 1..Len(nodes) }

\* The child's overflow rectangle, moved by its bounds origin, holds the
\* point of the parent's space.
InOverflow(kid, point) ==
    /\ kid.overflow.origin.x + kid.bounds.origin.x <= point.x
    /\ point.x < kid.overflow.origin.x + kid.bounds.origin.x + kid.overflow.size.width
    /\ kid.overflow.origin.y + kid.bounds.origin.y <= point.y
    /\ point.y < kid.overflow.origin.y + kid.bounds.origin.y + kid.overflow.size.height

\* C24 as stated: every hit test enters every context of the tree,
\* whatever its layer, bounds and overflow are, and so every context
\* painting draws.
C24_EveryCallVisitsEveryContext ==
    call.op = "hit_test" =>
        /\ Visited = AllContexts
        /\ \A tile_bounds \in Tiles : PaintedContexts(tile_bounds) \subseteq Visited

\* C24 amended: a hit test with topmost_only = false enters every context
\* of the tree, whatever its layer, bounds and overflow are, and so every
\* context painting draws; a hit test with topmost_only = true enters the
\* same contexts in the same order up to its first match and no further.
C24_VisitsWithoutLayerOrBoundsTest ==
    call.op = "hit_test" =>
        LET all == hit_test_entries(root, call.point, <<>>, FALSE)
        IN  /\ ~call.topmost_only =>
                   /\ Visited = AllContexts
                   /\ \A tile_bounds \in Tiles :
                          PaintedContexts(tile_bounds) \subseteq Visited
            /\ call.topmost_only =>
                   /\ Len(call.asserted) <= Len(all)
                   /\ \A n \in 1..Len(call.asserted) :
                          call.asserted[n].self = all[n].self

\* C24 witness: a hit test with topmost_only = false has returned an item
\* of a child that owns a layer, which painting does not draw, and has
\* entered a child of that child at a point outside its overflow
\* rectangle.
C24_Witness ==
    /\ call.op = "hit_test" /\ ~call.topmost_only
    /\ \E k \in 1..Len(root.display_list.children) :
          LET kid == root.display_list.children[k]
              point == local_point(kid, local_point(root, call.point))
          IN  /\ kid.layer # None
              /\ kid \in Visited
              /\ kid \notin PaintedContexts(FullTile)
              /\ \E i \in 1..Len(result) : IsOfKid(result[i].node, k)
              /\ kid.display_list.children # <<>>
              /\ kid.display_list.children[1] \in Visited
              /\ ~InOverflow(kid.display_list.children[1], point)
====
